---- MODULE Spec2Model ----
(***************************************************************************)
(* Healthcare ETL pipeline: bronze -> silver (transform.py) -> warehouse   *)
(* (load.py).  Datasets are pandas frames: a set of column names and a     *)
(* sequence of rows.  Cells are nullable: a number / timestamp, a text     *)
(* that does not parse, or a missing value.                                *)
(***************************************************************************)
EXTENDS Integers, Sequences, FiniteSets, TLC

VARIABLES
    sources,    \* entity -> the file_path the extractor is given and what is there
    bronze,     \* entity -> bronze artifact (<entity>_raw.parquet)
    bronze_meta,\* entity -> metadata the extractor saved with the bronze artifact
    bronze0,    \* the bronze store as it was when the running extractor call started
    ecall,      \* the extractor method the caller has invoked
    epc,        \* position of the extractor call
    elog,       \* entity extractions the running extract_all_data has entered
    edone,      \* keys of the results mapping of extract_all_data
    silver,     \* entity -> silver artifact (<entity>_clean.parquet)
    silver0,    \* the silver store as it was when the running call started
    tcall,      \* the transformer method the caller has invoked
    tpc,        \* position of the transformer call
    tlog,       \* entity transforms the running transform_all_data has entered
    tdone,      \* keys of the results mapping of transform_all_data
    warehouse,  \* table -> rows held by the warehouse table
    warehouse0, \* the warehouse tables as they were when the running call started
    medications,\* rows of the warehouse's medications reference table
    lcall,      \* the loader method the caller has invoked
    lpc,        \* position of load_all_data
    llog,       \* steps load_all_data has executed, in order
    lres,       \* step -> what the step reported ("none" until it has run)
    success,    \* the local variable success of load_all_data
    lret,       \* value returned by the loader call ("none" until it returns)
    stage,      \* the stage the scheduled pipeline is at ("free": no schedule)
    runs,       \* pipeline runs the schedule has completed
    snap,       \* silver rows and table counts at the end of the first run
    now,        \* datetime.now(), in hours
    task_state, \* task of the DAG -> its state in the DAG run
    try_number  \* task of the DAG -> attempts the scheduler has started

vars == <<sources, bronze, bronze_meta, bronze0, ecall, epc, elog, edone,
          silver, silver0, tcall, tpc, tlog, tdone,
          warehouse, warehouse0, medications, lcall, lpc, llog, lres, success, lret,
          stage, runs, snap, now, task_state, try_number>>

evars == <<sources, bronze_meta, bronze0, ecall, epc, elog, edone>>
tvars == <<bronze, silver, silver0, tcall, tpc, tlog, tdone>>
lvars == <<warehouse, warehouse0, medications, lcall, lpc, llog, lres, success, lret>>
pvars == <<stage, runs, snap, now, task_state, try_number>>
\* the DAG run's variables
dvars == <<task_state, try_number>>
\* the transformer's variables but the bronze store it reads
svars == <<silver, silver0, tcall, tpc, tlog, tdone>>

-----------------------------------------------------------------------------
(* Bounds of the model *)

\* rows of an input dataset
MaxRows == 2

\* primary-key values 1..MaxId
MaxId == 2

-----------------------------------------------------------------------------
(* Cells *)

Num(n) == [k |-> "num", v |-> n]
\* a text cell that parses neither as a number nor as a date
Str == [k |-> "str", v |-> 0]
\* NaN / NaT / None
NaN == [k |-> "nan", v |-> 0]
\* float('inf'), used as the last bin edge
Inf == [k |-> "inf", v |-> 0]

\* a float as the fraction num/den, den > 0
Frac(num, den) == [num |-> num, den |-> den]

IsNum(x) == x.k = "num"

\* pd.to_numeric(col, errors='coerce')
to_numeric(x) == IF IsNum(x) THEN x ELSE NaN

\* pd.to_datetime(col, errors='coerce'); timestamps count hours
to_datetime(x) == IF IsNum(x) THEN x ELSE NaN

\* x > n, x >= n, x <= n on a float column: False on NaN
Gt(x, n) == IsNum(x) /\ x.v > n
Ge(x, n) == IsNum(x) /\ x.v >= n
Le(x, n) == IsNum(x) /\ x.v <= n

\* edge comparison of pd.cut: lo < x <= hi, the last edge may be inf
InBin(x, lo, hi) ==
    /\ IsNum(x)
    /\ lo.v < x.v
    /\ (hi.k = "inf" \/ x.v <= hi.v)

NoCategory == "NaN"

\* pd.cut(col, bins=bins, labels=labels): right=True, include_lowest=False
cut(x, bins, labels) ==
    IF \E i \in 1..Len(labels) : InBin(x, bins[i], bins[i + 1])
    THEN labels[CHOOSE i \in 1..Len(labels) : InBin(x, bins[i], bins[i + 1])]
    ELSE NoCategory

-----------------------------------------------------------------------------
(* Frames *)

Frame(cols, rows) == [exists |-> TRUE, cols |-> cols, rows |-> rows]
\* no artifact at the path
Absent == [exists |-> FALSE, cols |-> {}, rows |-> <<>>]

Map(rows, F(_)) == [i \in 1..Len(rows) |-> F(rows[i])]

RECURSIVE KeepFirst(_, _, _)
KeepFirst(rows, keys, i) ==
    IF i > Len(rows) THEN <<>>
    ELSE (IF \E j \in 1..(i - 1) : keys[j] = keys[i] THEN <<>> ELSE <<rows[i]>>)
         \o KeepFirst(rows, keys, i + 1)

RECURSIVE KeepLast(_, _, _)
KeepLast(rows, keys, i) ==
    IF i > Len(rows) THEN <<>>
    ELSE (IF \E j \in (i + 1)..Len(rows) : keys[j] = keys[i] THEN <<>> ELSE <<rows[i]>>)
         \o KeepLast(rows, keys, i + 1)

\* mutant: keep='last'
drop_duplicates_keep_last(rows, keys) == KeepLast(rows, keys, 1)

\* df.drop_duplicates(subset=[key]): keep='first'
drop_duplicates(rows, keys) == KeepFirst(rows, keys, 1)

\* mutant: the required-column check always answers True
validate_dataframe_skipped(cols, required_columns) == TRUE

\* validate_dataframe(df, required_columns, table_name)
validate_dataframe(cols, required_columns) == required_columns \subseteq cols

\* sequences over S of length at most n
SeqUpTo(S, n) == UNION {[1..m -> S] : m \in 0..n}

-----------------------------------------------------------------------------
(* Entities *)

Entities == {"claims", "patients", "providers", "prescriptions"}

\* the columns the extractor's frames carry (extract.py, _generate_sample_*)
ClaimsColumns ==
    {"claim_id", "patient_id", "provider_id", "admission_date", "discharge_date",
     "diagnosis_code", "procedure_code", "cost", "insurance_type",
     "length_of_stay", "readmission_date"}

\* df[col] for a column the frame may lack: df.get(col, pd.Series()) aligns an
\* empty series to the frame's index, every cell missing
get(cols, col, cell) == IF col \in cols THEN cell ELSE NaN

-----------------------------------------------------------------------------
(* utils.py *)

\* (readmission_date - discharge_date).dt.days: whole days, rounded down;
\* missing when either side is missing
days_between(discharge_date, readmission_date) ==
    IF IsNum(discharge_date) /\ IsNum(readmission_date)
    THEN Num((readmission_date.v - discharge_date.v) \div 24)
    ELSE NaN

\* mutant: the window closed on the left, as (days_between >= 0)
calculate_readmission_flag_same_day(discharge_date, readmission_date, days_threshold) ==
    LET d == days_between(to_datetime(discharge_date), to_datetime(readmission_date))
    IN  IF Le(d, days_threshold) /\ Ge(d, 0) THEN 1 ELSE 0

calculate_readmission_flag(discharge_date, readmission_date, days_threshold) ==
    LET d == days_between(to_datetime(discharge_date), to_datetime(readmission_date))
    IN  IF Le(d, days_threshold) /\ Gt(d, 0) THEN 1 ELSE 0

-----------------------------------------------------------------------------
(* transform.py: claims *)

\* columns _clean_claims_data indexes with df[...]: a KeyError without them
ClaimsCleanColumns ==
    {"claim_id", "diagnosis_code", "procedure_code", "insurance_type", "cost",
     "length_of_stay"}

\* columns _engineer_claims_features indexes with df[...]
ClaimsEngineerColumns == {"admission_date", "discharge_date", "cost", "length_of_stay"}

\* a variant of _validate_claims_data that does not ask for the two foreign keys
ClaimsRequiredColumns_without_keys == {"claim_id", "diagnosis_code", "cost"}

\* required_columns of _validate_claims_data
ClaimsRequiredColumns == {"claim_id", "patient_id", "provider_id", "diagnosis_code", "cost"}

ClaimsDerivedColumns == {"readmission_flag", "cost_per_day", "cost_category",
     "los_category", "admission_month", "admission_quarter", "admission_year",
     "admission_dow"}

\* the type coercions of _clean_claims_data on one row
ClaimsCoerce(cols, r) ==
    [r EXCEPT !.discharge_date = IF "discharge_date" \in cols THEN to_datetime(@) ELSE @,
              !.readmission_date = IF "readmission_date" \in cols THEN to_datetime(@) ELSE @,
              !.cost = to_numeric(@),
              !.length_of_stay = to_numeric(@)]

ClaimsCostValid(r) == Gt(r.cost, 0)

\* mutant: the upper end of the range left out
ClaimsLosValid_no_upper(r) == Ge(r.length_of_stay, 0)

ClaimsLosValid(r) == Ge(r.length_of_stay, 0) /\ Le(r.length_of_stay, 365)

\* mutant: the rows without duplicates are concatenated to the frame
ClaimsDedup_concat(rows) == rows \o drop_duplicates(rows, Map(rows, LAMBDA r : r.claim_id))

\* df.drop_duplicates(subset=['claim_id'])
ClaimsDedup(rows) == drop_duplicates(rows, Map(rows, LAMBDA r : r.claim_id))

_clean_claims_data(cols, rows) ==
    LET dedup == ClaimsDedup(rows)
        typed == Map(dedup, LAMBDA r : ClaimsCoerce(cols, r))
        costly == SelectSeq(typed, ClaimsCostValid)
    IN  SelectSeq(costly, ClaimsLosValid)

CostBins == <<Num(0), Num(1000), Num(5000), Num(15000), Inf>>
CostLabels == <<"Low", "Medium", "High", "Very High">>

LosBins == <<Num(0), Num(1), Num(3), Num(7), Inf>>
LosLabels == <<"Same Day", "Short", "Medium", "Long">>

ClaimsFeatures(cols, r) ==
    [claim_id |-> r.claim_id,
     patient_id |-> r.patient_id,
     provider_id |-> r.provider_id,
     cost |-> r.cost,
     length_of_stay |-> r.length_of_stay,
     discharge_date |-> r.discharge_date,
     readmission_date |-> r.readmission_date,
     readmission_flag |->
         calculate_readmission_flag(r.discharge_date,
             get(cols, "readmission_date", r.readmission_date), 30),
     cost_category |-> cut(r.cost, CostBins, CostLabels),
     los_category |-> cut(r.length_of_stay, LosBins, LosLabels)]

_engineer_claims_features(cols, rows) == Map(rows, LAMBDA r : ClaimsFeatures(cols, r))

\* transform_claims_data on the bronze artifact: the silver frame, or the
\* stage whose exception leaves the call
transform_claims_data(df) ==
    IF ~df.exists THEN [ok |-> FALSE, stage |-> "read", df |-> Absent]
    ELSE IF ~(ClaimsCleanColumns \subseteq df.cols)
    THEN [ok |-> FALSE, stage |-> "clean", df |-> Absent]
    ELSE IF ~(ClaimsEngineerColumns \subseteq df.cols)
    THEN [ok |-> FALSE, stage |-> "derive", df |-> Absent]
    ELSE IF ~validate_dataframe(df.cols \cup ClaimsDerivedColumns, ClaimsRequiredColumns)
    THEN [ok |-> FALSE, stage |-> "validate", df |-> Absent]
    ELSE [ok |-> TRUE, stage |-> "write",
          df |-> Frame(df.cols \cup ClaimsDerivedColumns,
                       _engineer_claims_features(df.cols,
                           _clean_claims_data(df.cols, df.rows)))]

-----------------------------------------------------------------------------
(* transform.py: patients *)

PatientsColumns ==
    {"patient_id", "age", "gender", "race", "zip_code", "insurance_type",
     "chronic_conditions", "last_visit_date"}

PatientsCleanColumns ==
    {"patient_id", "gender", "age", "zip_code", "race", "insurance_type",
     "last_visit_date"}

PatientsEngineerColumns == {"age", "chronic_conditions", "last_visit_date"}

PatientsRequiredColumns == {"patient_id", "age", "gender"}

PatientsDerivedColumns ==
    {"age_category", "risk_level", "days_since_last_visit", "patient_status"}

PatientsAgeValid(r) == Ge(r.age, 0) /\ Le(r.age, 120)

_clean_patients_data(rows) ==
    LET dedup == drop_duplicates(rows, Map(rows, LAMBDA r : r.patient_id))
        typed == Map(dedup, LAMBDA r : [r EXCEPT !.age = to_numeric(@)])
        dated == Map(SelectSeq(typed, PatientsAgeValid),
                     LAMBDA r : [r EXCEPT !.last_visit_date = to_datetime(@)])
    IN  dated

AgeBins == <<Num(0), Num(18), Num(35), Num(50), Num(65), Num(100)>>
AgeLabels == <<"Pediatric", "Young Adult", "Adult", "Middle Age", "Senior">>

\* mutant: the bins start at 0, as those of the other columns do
RiskBins_from_zero == <<Num(0), Num(1), Num(2), Num(4), Inf>>

RiskBins == <<Num(-1), Num(0), Num(2), Num(4), Inf>>
RiskLabels == <<"Low", "Medium", "High", "Very High">>

\* pd.cut raises on a chronic_conditions column that holds a text: cleaning
\* does not coerce this column
RiskCuts(rows) == \A i \in 1..Len(rows) : rows[i].chronic_conditions # Str

\* (current_date - df['last_visit_date']).dt.days: whole days, rounded down
days_since_last_visit(current_date, last_visit_date) ==
    days_between(last_visit_date, Num(current_date))

\* mutant: the 90th day is no longer Active
patient_status_before_90(x) ==
    IF IsNum(x) /\ x.v < 90 THEN "Active" ELSE IF Le(x, 365) THEN "Inactive" ELSE "Dormant"

\* 'Active' if x <= 90 else 'Inactive' if x <= 365 else 'Dormant': a missing
\* day count compares False twice
patient_status(x) ==
    IF Le(x, 90) THEN "Active" ELSE IF Le(x, 365) THEN "Inactive" ELSE "Dormant"

\* the feature columns of one row; current_date is datetime.now() at the call
PatientsFeatures(current_date, r) ==
    [patient_id |-> r.patient_id,
     age |-> r.age,
     chronic_conditions |-> r.chronic_conditions,
     last_visit_date |-> r.last_visit_date,
     age_category |-> cut(r.age, AgeBins, AgeLabels),
     risk_level |-> cut(r.chronic_conditions, RiskBins, RiskLabels),
     days_since_last_visit |-> days_since_last_visit(current_date, r.last_visit_date),
     patient_status |-> patient_status(days_since_last_visit(current_date, r.last_visit_date))]

_engineer_patients_features(current_date, rows) ==
    Map(rows, LAMBDA r : PatientsFeatures(current_date, r))

\* current_date is what datetime.now() answers during the call
transform_patients_data(current_date, df) ==
    IF ~df.exists THEN [ok |-> FALSE, stage |-> "read", df |-> Absent]
    ELSE IF ~(PatientsCleanColumns \subseteq df.cols)
    THEN [ok |-> FALSE, stage |-> "clean", df |-> Absent]
    ELSE IF ~(PatientsEngineerColumns \subseteq df.cols)
            \/ ~RiskCuts(_clean_patients_data(df.rows))
    THEN [ok |-> FALSE, stage |-> "derive", df |-> Absent]
    ELSE IF ~validate_dataframe(df.cols \cup PatientsDerivedColumns, PatientsRequiredColumns)
    THEN [ok |-> FALSE, stage |-> "validate", df |-> Absent]
    ELSE [ok |-> TRUE, stage |-> "write",
          df |-> Frame(df.cols \cup PatientsDerivedColumns,
                       _engineer_patients_features(current_date, _clean_patients_data(df.rows)))]

-----------------------------------------------------------------------------
(* transform.py: providers *)

ProvidersColumns ==
    {"provider_id", "hospital_name", "provider_type", "state", "city", "beds",
     "teaching_hospital"}

ProvidersCleanColumns == ProvidersColumns

ProvidersEngineerColumns == {"beds", "city", "state"}

ProvidersRequiredColumns == {"provider_id", "hospital_name", "state"}

ProvidersDerivedColumns ==
    {"hospital_size", "full_address", "avg_cost", "readmission_rate", "patient_volume"}

\* mutant: a provider without beds is kept
ProvidersBedsValid_or_zero(r) == Ge(r.beds, 0)

\* df = df[df['beds'] > 0]
ProvidersBedsValid(r) == Gt(r.beds, 0)

_clean_providers_data(rows) ==
    LET dedup == drop_duplicates(rows, Map(rows, LAMBDA r : r.provider_id))
        typed == Map(dedup, LAMBDA r : [r EXCEPT !.beds = to_numeric(@)])
    IN  SelectSeq(typed, ProvidersBedsValid)

BedsBins == <<Num(0), Num(100), Num(300), Num(600), Inf>>
BedsLabels == <<"Small", "Medium", "Large", "Very Large">>

ProvidersFeatures(r) ==
    [provider_id |-> r.provider_id,
     beds |-> r.beds,
     hospital_size |-> cut(r.beds, BedsBins, BedsLabels),
     avg_cost |-> Frac(0, 1),
     readmission_rate |-> Frac(0, 1),
     patient_volume |-> 0]

_engineer_providers_features(rows) == Map(rows, ProvidersFeatures)

transform_providers_data(df) ==
    IF ~df.exists THEN [ok |-> FALSE, stage |-> "read", df |-> Absent]
    ELSE IF ~(ProvidersCleanColumns \subseteq df.cols)
    THEN [ok |-> FALSE, stage |-> "clean", df |-> Absent]
    ELSE IF ~(ProvidersEngineerColumns \subseteq df.cols)
    THEN [ok |-> FALSE, stage |-> "derive", df |-> Absent]
    ELSE IF ~validate_dataframe(df.cols \cup ProvidersDerivedColumns, ProvidersRequiredColumns)
    THEN [ok |-> FALSE, stage |-> "validate", df |-> Absent]
    ELSE [ok |-> TRUE, stage |-> "write",
          df |-> Frame(df.cols \cup ProvidersDerivedColumns,
                       _engineer_providers_features(_clean_providers_data(df.rows)))]

-----------------------------------------------------------------------------
(* transform.py: prescriptions *)

PrescriptionsColumns ==
    {"prescription_id", "patient_id", "provider_id", "medication_name",
     "prescription_date", "days_supplied", "days_prescribed", "quantity", "cost"}

PrescriptionsCleanColumns ==
    {"prescription_id", "medication_name", "prescription_date", "days_supplied",
     "days_prescribed", "quantity", "cost"}

PrescriptionsEngineerColumns ==
    {"days_supplied", "days_prescribed", "cost", "medication_name", "prescription_date"}

PrescriptionsRequiredColumns == {"prescription_id", "patient_id", "medication_name", "cost"}

PrescriptionsDerivedColumns ==
    {"adherence_rate", "adherence_category", "cost_per_day", "medication_category",
     "prescription_month", "prescription_quarter", "prescription_year"}

\* df['medication_name'].str.strip().str.title() on the names the inputs use
str_strip_title(name) ==
    CASE name = " metformin " -> "Metformin"
      [] name = "LISINOPRIL" -> "Lisinopril"
      [] name = "newdrug" -> "Newdrug"
      [] OTHER -> name

\* the names are cleaned; then the loop over numeric_columns: coerce the
\* column, keep the rows where it is > 0
_clean_prescriptions_data(rows) ==
    LET dedup == drop_duplicates(rows, Map(rows, LAMBDA r : r.prescription_id))
        named == Map(dedup, LAMBDA r : [r EXCEPT !.medication_name = str_strip_title(@)])
        c1 == SelectSeq(Map(named, LAMBDA r : [r EXCEPT !.days_supplied = to_numeric(@)]),
                        LAMBDA r : Gt(r.days_supplied, 0))
        c2 == SelectSeq(Map(c1, LAMBDA r : [r EXCEPT !.days_prescribed = to_numeric(@)]),
                        LAMBDA r : Gt(r.days_prescribed, 0))
        c3 == SelectSeq(Map(c2, LAMBDA r : [r EXCEPT !.quantity = to_numeric(@)]),
                        LAMBDA r : Gt(r.quantity, 0))
    IN  SelectSeq(Map(c3, LAMBDA r : [r EXCEPT !.cost = to_numeric(@)]),
                  LAMBDA r : Gt(r.cost, 0))

\* mutant: the cap at 100% left out
clip_lower_only(f) == IF f.num < 0 THEN Frac(0, 1) ELSE f

\* adherence.clip(0, 1)
clip01(f) ==
    IF f.num < 0 THEN Frac(0, 1)
    ELSE IF f.num > f.den THEN Frac(1, 1)
    ELSE f

\* the float division days_supplied / days_prescribed, then fillna(0): 0/0 and
\* a missing operand are NaN and become 0; x/0 is +inf or -inf, which stand
\* here as 2 and -1 (they clip as the infinities do)
divide_fillna(s, p) ==
    IF ~(IsNum(s) /\ IsNum(p)) THEN Frac(0, 1)
    ELSE IF p.v = 0 THEN (IF s.v > 0 THEN Frac(2, 1) ELSE IF s.v < 0 THEN Frac(-1, 1) ELSE Frac(0, 1))
    ELSE IF p.v < 0 THEN Frac(0 - s.v, 0 - p.v)
    ELSE Frac(s.v, p.v)

calculate_medication_adherence(days_supplied, days_prescribed) ==
    clip01(divide_fillna(days_supplied, days_prescribed))

\* lo < f <= hi on fractions
FracInBin(f, lo, hi) ==
    /\ lo.num * f.den < f.num * lo.den
    /\ f.num * hi.den <= hi.num * f.den

AdherenceBins == <<Frac(0, 1), Frac(1, 2), Frac(4, 5), Frac(1, 1)>>
AdherenceLabels == <<"Poor", "Fair", "Good">>

cut_frac(f, bins, labels) ==
    IF \E i \in 1..Len(labels) : FracInBin(f, bins[i], bins[i + 1])
    THEN labels[CHOOSE i \in 1..Len(labels) : FracInBin(f, bins[i], bins[i + 1])]
    ELSE NoCategory

PrescriptionsFeatures(r) ==
    LET rate == calculate_medication_adherence(r.days_supplied, r.days_prescribed)
    IN  [prescription_id |-> r.prescription_id,
         medication_name |-> r.medication_name,
         days_supplied |-> r.days_supplied,
         days_prescribed |-> r.days_prescribed,
         quantity |-> r.quantity,
         cost |-> r.cost,
         adherence_rate |-> rate,
         adherence_category |-> cut_frac(rate, AdherenceBins, AdherenceLabels)]

_engineer_prescriptions_features(rows) == Map(rows, PrescriptionsFeatures)

transform_prescriptions_data(df) ==
    IF ~df.exists THEN [ok |-> FALSE, stage |-> "read", df |-> Absent]
    ELSE IF ~(PrescriptionsCleanColumns \subseteq df.cols)
    THEN [ok |-> FALSE, stage |-> "clean", df |-> Absent]
    ELSE IF ~(PrescriptionsEngineerColumns \subseteq df.cols)
    THEN [ok |-> FALSE, stage |-> "derive", df |-> Absent]
    ELSE IF ~validate_dataframe(df.cols \cup PrescriptionsDerivedColumns,
                                PrescriptionsRequiredColumns)
    THEN [ok |-> FALSE, stage |-> "validate", df |-> Absent]
    ELSE [ok |-> TRUE, stage |-> "write",
          df |-> Frame(df.cols \cup PrescriptionsDerivedColumns,
                       _engineer_prescriptions_features(_clean_prescriptions_data(df.rows)))]

\* the per-entity transform the transformer dispatches to, called when the
\* clock shows current_date
transform_data_at(current_date, e, df) ==
    CASE e = "claims" -> transform_claims_data(df)
      [] e = "patients" -> transform_patients_data(current_date, df)
      [] e = "providers" -> transform_providers_data(df)
      [] e = "prescriptions" -> transform_prescriptions_data(df)

\* the per-entity transform called now
transform_data(e, df) == transform_data_at(now, e, df)

-----------------------------------------------------------------------------
(* The transformer's calls *)

\* the order of the calls in transform_all_data
TransformOrder == <<"claims", "patients", "providers", "prescriptions">>

\* what follows position i of transform_all_data when its call returned
AfterTransform(i) == IF i < Len(TransformOrder) THEN TransformOrder[i + 1] ELSE "returned"

\* mutant: a failed entity transform is swallowed and the next one runs
AfterFailedTransform_continue(i) == AfterTransform(i)

\* an exception of an entity transform is not caught: it leaves transform_all_data
AfterFailedTransform(i) == "raised"

\* mutant: the frame is appended to the artifact that is already there
save_parquet_append(store, e, df) ==
    [store EXCEPT ![e] = IF @.exists THEN Frame(df.cols, @.rows \o df.rows) ELSE df]

\* save_parquet_with_metadata(df, output_path, metadata): the artifact is overwritten
save_parquet(store, e, df) == [store EXCEPT ![e] = df]

\* a direct call of transform_<e>_data()
TransformCall(e) ==
    /\ tpc = "idle"
    /\ LET out == transform_data(e, bronze[e])
       IN  /\ silver' = IF out.ok THEN save_parquet(silver, e, out.df) ELSE silver
           /\ tpc' = IF out.ok THEN "returned" ELSE "raised"
           /\ tdone' = IF out.ok THEN {e} ELSE {}
    /\ tcall' = e
    /\ tlog' = <<e>>
    /\ silver0' = silver
    /\ UNCHANGED <<bronze, lvars, evars, pvars>>

\* transform_all_data() is entered
TransformAllBegin ==
    /\ tpc = "idle"
    /\ tcall' = "all"
    /\ tpc' = TransformOrder[1]
    /\ tlog' = <<>>
    /\ tdone' = {}
    /\ silver0' = silver
    /\ UNCHANGED <<bronze, silver, lvars, evars, pvars>>

\* results[e] = self.transform_<e>_data() inside transform_all_data
TransformAllStep ==
    /\ tcall = "all"
    /\ \E i \in 1..Len(TransformOrder) :
          /\ tpc = TransformOrder[i]
          /\ LET e == TransformOrder[i]
                 out == transform_data(e, bronze[e])
             IN  /\ silver' = IF out.ok THEN save_parquet(silver, e, out.df) ELSE silver
                 /\ tpc' = IF out.ok THEN AfterTransform(i) ELSE AfterFailedTransform(i)
                 /\ tdone' = IF out.ok THEN tdone \cup {e} ELSE tdone
                 /\ tlog' = Append(tlog, e)
    /\ UNCHANGED <<bronze, silver0, tcall, lvars, evars, pvars>>

\* the call has returned or raised and the caller goes on
TransformerLeft ==
    /\ tpc \in {"returned", "raised"}
    /\ tpc' = "idle"
    /\ UNCHANGED <<bronze, silver, silver0, tcall, tlog, tdone, lvars, evars, pvars>>

-----------------------------------------------------------------------------
(* extract.py *)

\* what the extractor is given for an entity: no file_path, a file_path
\* where no file is, a file_path of a CSV file that parses, a file_path of a
\* file on which pd.read_csv raises
SourceKinds == {"none", "missing", "file", "corrupt"}

\* the file_path argument, None when no path is given
None == "None"

file_path(e, kind) == IF kind = "none" THEN None ELSE "data/" \o e \o ".csv"

\* os.path.exists(file_path)
exists(kind) == kind \in {"file", "corrupt"}

\* the frames of the _generate_sample_<e>_data methods (fixed seed): the ids
\* count from 1, the values lie in the ranges the generators draw from
SampleData ==
    [e \in Entities |->
        CASE e = "claims" ->
                Frame(ClaimsColumns,
                      <<[claim_id |-> 1, patient_id |-> 2, provider_id |-> 1,
                         cost |-> Num(4700), length_of_stay |-> Num(3),
                         discharge_date |-> Num(48), readmission_date |-> Num(216)],
                        [claim_id |-> 2, patient_id |-> 1, provider_id |-> 2,
                         cost |-> Num(90), length_of_stay |-> Num(0),
                         discharge_date |-> Num(72), readmission_date |-> NaN]>>)
          [] e = "patients" ->
                Frame(PatientsColumns,
                      <<[patient_id |-> 1, age |-> Num(18), chronic_conditions |-> Num(0),
                         last_visit_date |-> Num(0)],
                        [patient_id |-> 2, age |-> Num(99), chronic_conditions |-> Num(5),
                         last_visit_date |-> Num(7)]>>)
          [] e = "providers" ->
                Frame(ProvidersColumns,
                      <<[provider_id |-> 1, beds |-> Num(50)],
                        [provider_id |-> 2, beds |-> Num(999)]>>)
          [] e = "prescriptions" ->
                Frame(PrescriptionsColumns,
                      <<[prescription_id |-> 1, medication_name |-> "Metformin",
                         days_supplied |-> Num(7), days_prescribed |-> Num(89),
                         quantity |-> Num(30), cost |-> Num(50)],
                        [prescription_id |-> 2, medication_name |-> "Albuterol",
                         days_supplied |-> Num(89), days_prescribed |-> Num(7),
                         quantity |-> Num(499), cost |-> Num(12)]>>)]

\* "source": file_path or "generated"
source_of(path) == IF path = None THEN "generated" ELSE path

\* if file_path and os.path.exists(file_path): the rows are read from the path
path_is_read(kind) == kind # "none" /\ exists(kind)

\* extract_<e>_data(file_path) over the CSV file csv: the frame and the
\* metadata it saves, or the exception of pd.read_csv
extract_data(e, kind, csv) ==
    IF path_is_read(kind) /\ kind = "corrupt"
    THEN [ok |-> FALSE, df |-> Absent, meta |-> [source |-> "none", pipeline_stage |-> "none"]]
    ELSE [ok |-> TRUE,
          df |-> IF path_is_read(kind) THEN csv ELSE SampleData[e],
          meta |-> [source |-> source_of(file_path(e, kind)), pipeline_stage |-> "bronze"]]

\* the order of the calls in extract_all_data
ExtractOrder == <<"claims", "patients", "providers", "prescriptions">>

\* what follows position i of extract_all_data when its call returned
AfterExtract(i) == IF i < Len(ExtractOrder) THEN ExtractOrder[i + 1] ELSE "returned"

\* mutant: a failed entity extraction is skipped and the next one runs
AfterFailedExtract_continue(i) == AfterExtract(i)

\* an exception of an entity extraction is not caught: it leaves extract_all_data
AfterFailedExtract(i) == "raised"

-----------------------------------------------------------------------------
(* load.py *)

\* the order of the entity loads in load_all_data
LoadOrder_facts_first == <<"claims", "patients", "providers", "prescriptions">>

LoadOrder == <<"patients", "providers", "claims", "prescriptions">>

Dimensions == {"patients", "providers"}
Facts == {"claims", "prescriptions"}

\* the steps whose outcome is recorded: those of load_all_data and the
\* medications query inside the prescriptions load
LoadSteps == {"connect", "schema", "metrics", "views", "lookup"} \cup Entities

\* mutant: success follows the last load only
AccumulateSuccess_last(acc, ok) == ok

\* if not self.load_<e>_data(): success = False
AccumulateSuccess(acc, ok) == IF ~ok THEN FALSE ELSE acc

\* mutant: the loads stop at the first failure
AfterLoad_short_circuit(i, ok) ==
    IF ~ok THEN "finish"
    ELSE IF i < Len(LoadOrder) THEN LoadOrder[i + 1] ELSE "derived"

\* what follows the i-th entity load, whatever it reported
AfterLoad(i, ok) == IF i < Len(LoadOrder) THEN LoadOrder[i + 1] ELSE "derived"

\* mutant: the derived metrics are updated whatever the loads reported
RunsDerived_always(acc) == TRUE

\* if success: update_provider_metrics(); create_analytics_views()
RunsDerived(acc) == acc

\* mutant: the frame's rows are added to the rows the table holds
to_sql_replace_append(tables, e, rows) == [tables EXCEPT ![e] = @ \o rows]

\* df.to_sql(table, engine, if_exists='replace'): the table holds the frame's rows
to_sql_replace(tables, e, rows) == [tables EXCEPT ![e] = rows]

\* mutant: every batch replaces the table
to_sql_replace_always(table, chunk, if_exists) == chunk

\* mutant: every batch is appended to what the table holds
to_sql_append_only(table, chunk, if_exists) == table \o chunk

\* chunk.to_sql(table, engine, if_exists=if_exists): one transaction
to_sql(table, chunk, if_exists) ==
    IF if_exists = "replace" THEN chunk ELSE table \o chunk

\* rows of a batch of the fact-table loads
chunk_size == 1000

\* pd.to_datetime(col).dt.date: the day the timestamp (in hours) falls on
to_date(x) == IF IsNum(x) THEN Num((x.v \div 24) * 24) ELSE x

\* the points of a load_<e>_data call where an exception can arise: reading
\* the silver artifact, the k-th to_sql, the SELECT COUNT(*) after the writes
NoFault == [at |-> "none", k |-> 0]

NumChunks(n) == (n + chunk_size - 1) \div chunk_size

Faults(e, df) ==
    {NoFault, [at |-> "read", k |-> 0], [at |-> "count", k |-> 0]}
    \cup {[at |-> "write", k |-> k] :
             k \in 1..(IF e \in Facts THEN NumChunks(Len(df.rows)) ELSE 1)}

\* the columns the _prepare_<e>_for_db methods test as required_columns, and
\* those they go on to index or convert with astype
DbRequiredColumns(e) ==
    CASE e = "patients" -> {"patient_id", "age", "gender"}
      [] e = "providers" -> {"provider_id", "hospital_name", "state"}
      [] e = "claims" -> {"claim_id", "patient_id", "provider_id", "cost"}
      [] e = "prescriptions" -> {"prescription_id", "patient_id", "medication_name", "cost"}

DbConvertedColumns(e) ==
    CASE e = "patients" -> {"chronic_conditions"}
      [] e = "providers" -> {"beds", "teaching_hospital"}
      [] e = "claims" -> {"readmission_flag", "length_of_stay"}
      [] e = "prescriptions" -> {"provider_id", "days_supplied", "days_prescribed", "quantity"}

\* medication_map = {row[1]: row[0] for row in result}
medication_map(meds, name) ==
    IF \E m \in meds : m.medication_name = name
    THEN Num((CHOOSE m \in meds : m.medication_name = name).medication_id)
    ELSE NaN

\* mutant: fillna(0) left out, the unmapped names keep a missing id
fillna0_missing(x) == x

\* df['medication_id'].fillna(0)
fillna0(x) == IF x = NaN THEN Num(0) ELSE x

\* _add_medication_ids on one row: the looked-up id, 0 for a name the table
\* lacks, and 0 on every row when the lookup query raises
_add_medication_ids(meds, lookup, r) ==
    [c \in DOMAIN r \cup {"medication_id"} |->
        IF c # "medication_id" THEN r[c]
        ELSE IF lookup THEN fillna0(medication_map(meds, r.medication_name))
        ELSE Num(0)]

\* the row of the frame a _prepare_<e>_for_db method returns
DbRow(e, meds, lookup, r) ==
    CASE e = "claims" ->
            [r EXCEPT !.discharge_date = to_date(@), !.readmission_date = to_date(@)]
      [] e = "prescriptions" -> _add_medication_ids(meds, lookup, r)
      [] e = "patients" -> [r EXCEPT !.last_visit_date = to_date(@)]
      [] e = "providers" -> r

\* astype('int64') raises on a cell that is no number
Int64Cells(e, r) ==
    CASE e = "claims" -> IsNum(r.length_of_stay)
      [] e = "patients" -> IsNum(r.age)
      [] e = "providers" -> IsNum(r.beds)
      [] e = "prescriptions" ->
            IsNum(r.days_supplied) /\ IsNum(r.days_prescribed) /\ IsNum(r.quantity)

\* _prepare_<e>_for_db(df): the frame as it is when a required column is
\* missing, an exception when a converted column is missing or does not
\* convert, the converted rows otherwise
prepare_for_db(e, df, meds, lookup) ==
    IF ~(DbRequiredColumns(e) \subseteq df.cols) THEN [ok |-> TRUE, rows |-> df.rows]
    ELSE IF ~(DbConvertedColumns(e) \subseteq df.cols) THEN [ok |-> FALSE, rows |-> <<>>]
    ELSE IF \E i \in 1..Len(df.rows) : ~Int64Cells(e, df.rows[i])
    THEN [ok |-> FALSE, rows |-> <<>>]
    ELSE [ok |-> TRUE, rows |-> [i \in 1..Len(df.rows) |-> DbRow(e, meds, lookup, df.rows[i])]]

Min(a, b) == IF a <= b THEN a ELSE b

\* for i in range(0, len(df), chunk_size): chunk = df.iloc[i:i+chunk_size];
\* the first batch replaces the table, the later ones are appended; an
\* exception leaves the batches written so far
RECURSIVE write_chunks(_, _, _, _)
write_chunks(table, rows, i, fault) ==
    IF i >= Len(rows) THEN [ok |-> TRUE, table |-> table]
    ELSE IF fault.at = "write" /\ fault.k = (i \div chunk_size) + 1
    THEN [ok |-> FALSE, table |-> table]
    ELSE write_chunks(to_sql(table, SubSeq(rows, i + 1, Min(i + chunk_size, Len(rows))),
                             IF i = 0 THEN "replace" ELSE "append"),
                      rows, i + chunk_size, fault)

\* load_claims_data / load_prescriptions_data on the silver artifact df: what
\* the call reports and the rows the table holds afterwards
load_fact_data(e, df, table, meds, fault, lookup) ==
    IF ~df.exists \/ fault.at = "read" THEN [ok |-> FALSE, table |-> table]
    ELSE LET prep == prepare_for_db(e, df, meds, lookup)
         IN  IF ~prep.ok THEN [ok |-> FALSE, table |-> table]
             ELSE LET w == write_chunks(table, prep.rows, 0, fault)
                  IN  [ok |-> w.ok /\ fault.at # "count", table |-> w.table]

\* load_patients_data / load_providers_data: one to_sql that replaces the table
load_dimension_data(e, df, table, meds, fault, lookup) ==
    IF ~df.exists \/ fault.at = "read" THEN [ok |-> FALSE, table |-> table]
    ELSE LET prep == prepare_for_db(e, df, meds, lookup)
         IN  IF ~prep.ok \/ fault.at = "write" THEN [ok |-> FALSE, table |-> table]
             ELSE [ok |-> fault.at # "count",
                   table |-> to_sql_replace([x \in {e} |-> table], e, prep.rows)[e]]

load_data(e, df, table, meds, fault, lookup) ==
    IF e \in Facts THEN load_fact_data(e, df, table, meds, fault, lookup)
    ELSE load_dimension_data(e, df, table, meds, fault, lookup)

\* whether the medications query of _add_medication_ids answers or raises
Lookups(e) == IF e = "prescriptions" THEN BOOLEAN ELSE {TRUE}

\* the call gets as far as the medications query
LookupReached(e, df, fault) ==
    /\ e = "prescriptions"
    /\ df.exists
    /\ fault.at # "read"
    /\ DbRequiredColumns(e) \cup DbConvertedColumns(e) \subseteq df.cols
    /\ \A i \in 1..Len(df.rows) : Int64Cells(e, df.rows[i])

\* what a load_<e>_data call records of its steps
LoadRecord(res, e, df, fault, lookup, ok) ==
    [res EXCEPT ![e] = IF ok THEN "ok" ELSE "fail",
                !["lookup"] = IF LookupReached(e, df, fault)
                              THEN (IF lookup THEN "ok" ELSE "fail")
                              ELSE @]

\* verify_data_integrity(): the row count of each table, {} when a query raises
verify_data_integrity(tables, answered) ==
    IF answered THEN [e \in Entities |-> Len(tables[e])] ELSE <<>>

\* a direct call of load_<e>_data() on a connected loader
LoadCall(e) ==
    /\ lpc = "idle"
    /\ \E fault \in Faults(e, silver[e]), lookup \in Lookups(e) :
          LET out == load_data(e, silver[e], warehouse[e], medications, fault, lookup)
          IN  /\ warehouse' = [warehouse EXCEPT ![e] = out.table]
              /\ lres' = LoadRecord([st \in LoadSteps |-> "none"], e, silver[e],
                                     fault, lookup, out.ok)
              /\ lret' = IF out.ok THEN "True" ELSE "False"
    /\ lcall' = e
    /\ lpc' = "returned"
    /\ llog' = <<e>>
    /\ warehouse0' = warehouse
    /\ UNCHANGED <<success, medications, tvars, evars, pvars>>

\* load_all_data() is entered
LoadAllBegin ==
    /\ lpc = "idle"
    /\ lpc' = "connect"
    /\ llog' = <<>>
    /\ lres' = [st \in LoadSteps |-> "none"]
    /\ lret' = "none"
    /\ lcall' = "all"
    /\ warehouse0' = warehouse
    /\ UNCHANGED <<success, warehouse, medications, tvars, evars, pvars>>

\* connect_to_database(): True, False on an SQLAlchemyError, any other
\* exception leaves load_all_data
LoadAllConnect ==
    /\ lpc = "connect"
    /\ llog' = Append(llog, "connect")
    /\ \E outcome \in {"ok", "fail", "raise"} :
          /\ lres' = [lres EXCEPT !["connect"] = outcome]
          /\ lpc' = CASE outcome = "ok" -> "schema"
                      [] outcome = "fail" -> "returned"
                      [] outcome = "raise" -> "raised"
          /\ lret' = IF outcome = "fail" THEN "False" ELSE lret
    /\ UNCHANGED <<success, warehouse, warehouse0, medications, lcall, tvars, evars, pvars>>

\* mutant: a failed schema step is logged and the loads go on
AfterSchema_continue(ok) == LoadOrder[1]

\* if not self.create_schema(): return False
AfterSchema(ok) == IF ok THEN LoadOrder[1] ELSE "returned"

\* create_schema(): True, or False on any exception (the transaction of the
\* schema statements is then not committed); then success = True
LoadAllSchema ==
    /\ lpc = "schema"
    /\ llog' = Append(llog, "schema")
    /\ \E ok \in BOOLEAN :
          /\ lres' = [lres EXCEPT !["schema"] = IF ok THEN "ok" ELSE "fail"]
          /\ lpc' = AfterSchema(ok)
          /\ lret' = IF ok THEN lret ELSE "False"
          /\ success' = IF ok THEN TRUE ELSE success
    /\ UNCHANGED <<warehouse, warehouse0, medications, lcall, tvars, evars, pvars>>

\* if not self.load_<e>_data(): success = False
LoadAllEntity ==
    /\ \E i \in 1..Len(LoadOrder) :
          /\ lpc = LoadOrder[i]
          /\ LET e == LoadOrder[i]
             IN  \E fault \in Faults(e, silver[e]), lookup \in Lookups(e) :
                    LET out == load_data(e, silver[e], warehouse[e], medications,
                                         fault, lookup)
                    IN  /\ warehouse' = [warehouse EXCEPT ![e] = out.table]
                        /\ lres' = LoadRecord(lres, e, silver[e], fault, lookup, out.ok)
                        /\ success' = AccumulateSuccess(success, out.ok)
                        /\ lpc' = AfterLoad(i, out.ok)
                        /\ llog' = Append(llog, e)
    /\ UNCHANGED <<lret, warehouse0, medications, lcall, tvars, evars, pvars>>

\* the test of success after the four loads
LoadAllDerived ==
    /\ lpc = "derived"
    /\ lpc' = IF RunsDerived(success) THEN "metrics" ELSE "finish"
    /\ UNCHANGED <<llog, lres, success, lret, warehouse, warehouse0, medications, lcall, tvars, evars, pvars>>

\* the columns the UPDATE of update_provider_metrics reads of claims
MetricsClaimsColumns == {"provider_id", "patient_id", "cost", "readmission_flag"}

\* the columns the UPDATE of update_provider_metrics names of providers
MetricsProvidersColumns == {"provider_id", "avg_cost", "readmission_rate", "patient_volume"}

\* the statement names only columns both tables have; it raises otherwise
MetricsAnswerable(tables) ==
    /\ \A i \in 1..Len(tables["claims"]) :
          MetricsClaimsColumns \subseteq DOMAIN tables["claims"][i]
    /\ \A i \in 1..Len(tables["providers"]) :
          MetricsProvidersColumns \subseteq DOMAIN tables["providers"][i]

RECURSIVE Sum(_)
Sum(s) == IF s = <<>> THEN 0 ELSE Head(s) + Sum(Tail(s))

\* SQL AVG over a column: the mean of its non-null cells, NULL when it has none
AVG(cells) ==
    LET vals == SelectSeq(cells, IsNum)
    IN  IF vals = <<>> THEN NaN
        ELSE Frac(Sum([i \in 1..Len(vals) |-> vals[i].v]), Len(vals))

\* the rows of one group of GROUP BY provider_id
ClaimsOf(claims, p) == SelectSeq(claims, LAMBDA c : c.provider_id = p)

\* the row of subq for provider p
ProviderAggregates(claims, p) ==
    LET g == ClaimsOf(claims, p)
    IN  [avg_cost |-> AVG([i \in 1..Len(g) |-> g[i].cost]),
         readmission_rate |-> AVG([i \in 1..Len(g) |-> Num(g[i].readmission_flag)]),
         patient_volume |-> Cardinality({g[i].patient_id : i \in 1..Len(g)})]

\* a variant with COUNT(patient_id) in place of COUNT(DISTINCT patient_id)
update_provider_metrics_count_rows(tables) ==
    LET rows == tables["providers"]
        claims == tables["claims"]
    IN  [tables EXCEPT !["providers"] =
            [i \in 1..Len(rows) |->
                IF ClaimsOf(claims, rows[i].provider_id) = <<>> THEN rows[i]
                ELSE LET q == ProviderAggregates(claims, rows[i].provider_id)
                     IN  [rows[i] EXCEPT
                             !.avg_cost = q.avg_cost,
                             !.readmission_rate = q.readmission_rate,
                             !.patient_volume = Len(ClaimsOf(claims, rows[i].provider_id))]]]

\* UPDATE healthcare.providers SET ... FROM (SELECT ... GROUP BY provider_id)
\* subq WHERE providers.provider_id = subq.provider_id: the providers that
\* join a group get its three aggregates, the others are not touched
update_provider_metrics(tables) ==
    LET rows == tables["providers"]
        claims == tables["claims"]
    IN  [tables EXCEPT !["providers"] =
            [i \in 1..Len(rows) |->
                IF ClaimsOf(claims, rows[i].provider_id) = <<>> THEN rows[i]
                ELSE LET q == ProviderAggregates(claims, rows[i].provider_id)
                     IN  [rows[i] EXCEPT !.avg_cost = q.avg_cost,
                                         !.readmission_rate = q.readmission_rate,
                                         !.patient_volume = q.patient_volume]]]

\* whether update_provider_metrics can return True or False on these tables:
\* the statement or its commit may fail on any tables, and it raises when a
\* column it names is missing
MetricsOutcomes(tables) == IF MetricsAnswerable(tables) THEN BOOLEAN ELSE {FALSE}

\* the tables after update_provider_metrics; a failed statement is rolled back
AfterUpdate(tables, ok) == IF ok THEN update_provider_metrics(tables) ELSE tables

\* a variant of load_all_data that folds the result of update_provider_metrics
\* into success
AfterMetrics_checked(acc, ok) == acc /\ ok

\* self.update_provider_metrics() as a statement: its result is dropped
AfterMetrics(acc, ok) == acc

\* update_provider_metrics() in load_all_data
LoadAllMetrics ==
    /\ lpc = "metrics"
    /\ llog' = Append(llog, "metrics")
    /\ \E ok \in MetricsOutcomes(warehouse) :
          /\ lres' = [lres EXCEPT !["metrics"] = IF ok THEN "ok" ELSE "fail"]
          /\ warehouse' = AfterUpdate(warehouse, ok)
          /\ success' = AfterMetrics(success, ok)
    /\ lpc' = "views"
    /\ UNCHANGED <<lret, warehouse0, medications, lcall, tvars, evars, pvars>>

\* a direct call of update_provider_metrics() on a connected loader
MetricsCall ==
    /\ lpc = "idle"
    /\ \E ok \in MetricsOutcomes(warehouse) :
          /\ lres' = [[st \in LoadSteps |-> "none"] EXCEPT
                         !["metrics"] = IF ok THEN "ok" ELSE "fail"]
          /\ warehouse' = AfterUpdate(warehouse, ok)
          /\ lret' = IF ok THEN "True" ELSE "False"
    /\ lcall' = "metrics"
    /\ lpc' = "returned"
    /\ llog' = <<"metrics">>
    /\ warehouse0' = warehouse
    /\ UNCHANGED <<success, medications, tvars, evars, pvars>>

\* create_analytics_views(): its result is dropped
LoadAllViews ==
    /\ lpc = "views"
    /\ llog' = Append(llog, "views")
    /\ \E ok \in BOOLEAN : lres' = [lres EXCEPT !["views"] = IF ok THEN "ok" ELSE "fail"]
    /\ lpc' = "finish"
    /\ UNCHANGED <<success, lret, warehouse, warehouse0, medications, lcall, tvars, evars, pvars>>

\* return success
LoadAllReturn ==
    /\ lpc = "finish"
    /\ lret' = IF success THEN "True" ELSE "False"
    /\ lpc' = "returned"
    /\ UNCHANGED <<llog, lres, success, warehouse, warehouse0, medications, lcall, tvars, evars, pvars>>

\* the call has returned or raised and the caller goes on
LoaderLeft ==
    /\ lpc \in {"returned", "raised"}
    /\ lpc' = "idle"
    /\ UNCHANGED <<llog, lres, success, lret, warehouse, warehouse0, medications, lcall, tvars, evars, pvars>>

-----------------------------------------------------------------------------
(* Initial states *)

NoArtifacts == [e \in Entities |-> Absent]

\* no file_path is given for any entity
NoSources == [e \in Entities |-> "none"]

\* no metadata has been saved
NoMeta == [source |-> "none", pipeline_stage |-> "none"]

EmptyWarehouse == [e \in Entities |-> <<>>]

\* rows of healthcare.medications: the names the warehouse knows
ReferenceMedications ==
    {[medication_id |-> 1, medication_name |-> "Metformin"],
     [medication_id |-> 2, medication_name |-> "Lisinopril"]}

\* the tasks the DAG's dependencies wire: the five steps and the two e-mails
DagOrder == <<"extract", "transform", "load", "quality_check", "analytics">>
Notifications == {"success_notification", "failure_notification"}
DagTasks == {DagOrder[i] : i \in 1..Len(DagOrder)} \cup Notifications

\* the hour the clock shows at the start: one hour short of two whole days
\* after the last visit of the model's patients
StartNow == 47

\* nothing has been recorded of a first pipeline run
NoSnap == [silver |-> NoArtifacts, counts |-> [e \in Entities |-> 0]]

\* the extractor, the transformer and the loader before any call, over the
\* given sources, stores, tables and reference table
StartWith(src, b, sv, wh, meds) ==
    /\ sources = src
    /\ bronze = b
    /\ bronze_meta = [e \in Entities |-> NoMeta]
    /\ bronze0 = b
    /\ ecall = "none"
    /\ epc = "idle"
    /\ elog = <<>>
    /\ edone = {}
    /\ silver = sv
    /\ silver0 = sv
    /\ tcall = "none"
    /\ tpc = "idle"
    /\ tlog = <<>>
    /\ tdone = {}
    /\ warehouse = wh
    /\ warehouse0 = wh
    /\ medications = meds
    /\ lcall = "none"
    /\ lpc = "idle"
    /\ llog = <<>>
    /\ lres = [st \in LoadSteps |-> "none"]
    /\ success = FALSE
    /\ lret = "none"
    /\ stage = "free"
    /\ runs = 0
    /\ snap = NoSnap
    /\ now = StartNow
    /\ task_state = [t \in DagTasks |-> "none"]
    /\ try_number = [t \in DagTasks |-> 0]

\* the transformer and the loader before any call, over the given stores
Start(b, sv) == StartWith(NoSources, b, sv, EmptyWarehouse, ReferenceMedications)

Only(e, df) == [NoArtifacts EXCEPT ![e] = df]

ClaimRow(id, cost, los, discharge, readmission) ==
    [claim_id |-> id, patient_id |-> 1, provider_id |-> 1,
     cost |-> cost, length_of_stay |-> los,
     discharge_date |-> discharge, readmission_date |-> readmission]

Ids == 1..MaxId

\* cells of a cost column: negative, zero, positive, text, missing
CostCells == {Num(-50), Num(0), Num(500), Str, NaN}

\* cells of a length_of_stay column, around the edges of the range and the bins
LosCells == {Num(-1), Num(0), Num(1), Num(2), Num(3), Num(4), Num(7), Num(8),
             Num(365), Num(366), Str, NaN}

\* claims whose cost or length of stay varies
ClaimsRangeRows ==
    {ClaimRow(id, c, Num(2), Num(120), NaN) : id \in Ids, c \in CostCells}
    \cup {ClaimRow(id, Num(500), l, Num(120), NaN) : id \in Ids, l \in LosCells}

\* frames that lack a column some stage needs
ClaimsBrokenInputs ==
    {Frame(ClaimsColumns \ {c}, rows) :
        c \in {"cost", "discharge_date", "provider_id"},
        rows \in SeqUpTo({ClaimRow(1, Num(500), Num(2), Num(120), NaN)}, MaxRows)}

ClaimsRangeInputs ==
    {Frame(ClaimsColumns, rows) : rows \in SeqUpTo(ClaimsRangeRows, MaxRows)}
    \cup ClaimsBrokenInputs

InitClaims == \E df \in ClaimsRangeInputs : Start(Only("claims", df), NoArtifacts)

NextClaims == TransformCall("claims")

\* transform_claims_data over bronze claims whose cost and length of stay vary
SpecClaims == InitClaims /\ [][NextClaims]_vars

-----------------------------------------------------------------------------
(* C1 *)

\* the silver claims frame a finished transform_claims_data call has written
ClaimsWritten == "claims" \in tdone

\* a bronze claim whose cost or length of stay cleaning rejects
ClaimRejected(r) ==
    \/ r.cost.k # "num"
    \/ r.cost.v <= 0
    \/ r.length_of_stay.k # "num"
    \/ r.length_of_stay.v < 0
    \/ r.length_of_stay.v > 365

CountRows(rows, P(_)) == Cardinality({i \in 1..Len(rows) : P(rows[i])})

\* C1: every row of the silver claims frame has cost > 0 and
\* 0 <= length_of_stay <= 365, and the bronze frame has lost at least as many
\* rows as it had rows with a non-positive, out-of-range or unparsable cost or
\* length_of_stay
C1_SilverClaimsInRange ==
    ClaimsWritten =>
        /\ \A i \in 1..Len(silver["claims"].rows) :
              LET r == silver["claims"].rows[i]
              IN  /\ r.cost.k = "num" /\ r.cost.v > 0
                  /\ r.length_of_stay.k = "num"
                  /\ r.length_of_stay.v >= 0 /\ r.length_of_stay.v <= 365
        /\ Len(bronze["claims"].rows) - Len(silver["claims"].rows)
              >= CountRows(bronze["claims"].rows, ClaimRejected)

\* a claim with cost -50 was dropped while another claim was kept
C1_Witness ==
    /\ ClaimsWritten
    /\ \E i \in 1..Len(bronze["claims"].rows) : bronze["claims"].rows[i].cost = Num(-50)
    /\ Len(silver["claims"].rows) = 1
    /\ Len(bronze["claims"].rows) - Len(silver["claims"].rows) >= 1

-----------------------------------------------------------------------------
(* C5 *)

\* a claim with length_of_stay 0 passed cleaning
C5_Reached ==
    /\ ClaimsWritten
    /\ \E i \in 1..Len(silver["claims"].rows) :
          silver["claims"].rows[i].length_of_stay = Num(0)

\* the category the boundaries [0,1], (1,3], (3,7], (7,inf) give a length of stay
LosCategoryByBounds(los) ==
    CASE los >= 0 /\ los <= 1 -> "Same Day"
      [] los > 1 /\ los <= 3 -> "Short"
      [] los > 3 /\ los <= 7 -> "Medium"
      [] los > 7 -> "Long"
      [] OTHER -> NoCategory

\* C5: every silver claim has the los_category of the boundaries [0,1] -> Same
\* Day, (1,3] -> Short, (3,7] -> Medium, (7,inf) -> Long; length_of_stay 0 is
\* Same Day
C5_LosCategoryTotal ==
    ClaimsWritten =>
        \A i \in 1..Len(silver["claims"].rows) :
            LET r == silver["claims"].rows[i]
            IN  r.los_category = LosCategoryByBounds(r.length_of_stay.v)

-----------------------------------------------------------------------------
(* C2 *)

\* claims whose discharge and readmission timestamps vary: the readmission
\* before, at and after the discharge, a part of a day, 1 day, 30 days,
\* 30 days and a half, 31 days after it; text; missing
ClaimsDateRows ==
    {ClaimRow(id, Num(500), Num(2), d, r) :
        id \in Ids, d \in {Num(120), NaN},
        r \in {Num(96), Num(119), Num(120), Num(132), Num(144), Num(840),
               Num(852), Num(864), Str, NaN}}
    \cup {ClaimRow(id, Num(500), Num(2), Num(132), r) :
             id \in Ids, r \in {Num(144), Num(156)}}

\* frames without a readmission_date column; the cells of the rows are not
\* part of such a frame
ClaimsNoReadmissionInputs ==
    {Frame(ClaimsColumns \ {"readmission_date"}, rows) :
        rows \in SeqUpTo({ClaimRow(id, Num(500), Num(2), Num(120), Num(144)) : id \in Ids},
                         MaxRows)}

ClaimsDateInputs ==
    {Frame(ClaimsColumns, rows) : rows \in SeqUpTo(ClaimsDateRows, MaxRows)}
    \cup ClaimsNoReadmissionInputs
    \cup ClaimsBrokenInputs

InitReadmission == \E df \in ClaimsDateInputs : Start(Only("claims", df), NoArtifacts)

\* transform_claims_data over bronze claims whose dates vary
SpecReadmission == InitReadmission /\ [][NextClaims]_vars

\* the first bronze row with the key, which drop_duplicates keeps
FirstWithClaimId(rows, id) ==
    rows[CHOOSE i \in 1..Len(rows) :
            /\ rows[i].claim_id = id
            /\ \A j \in 1..(i - 1) : rows[j].claim_id # id]

\* C2: readmission_flag is 1 iff the claim has a readmission_date and a
\* discharge_date and the readmission is at least one whole day and at most 30
\* whole days after the discharge (timestamps in hours); it is 0 otherwise, so
\* also when readmission_date is missing or is no column of the frame
C2_ReadmissionFlag ==
    ClaimsWritten =>
        \A i \in 1..Len(silver["claims"].rows) :
            LET r == silver["claims"].rows[i]
                b == FirstWithClaimId(bronze["claims"].rows, r.claim_id)
                within ==
                    /\ "readmission_date" \in bronze["claims"].cols
                    /\ b.readmission_date.k = "num"
                    /\ b.discharge_date.k = "num"
                    /\ b.readmission_date.v - b.discharge_date.v >= 24
                    /\ b.readmission_date.v - b.discharge_date.v < 31 * 24
            IN  r.readmission_flag = IF within THEN 1 ELSE 0

\* one claim readmitted 30 days and a half after discharge is flagged, one
\* readmitted 31 days after is not
C2_Witness ==
    /\ ClaimsWritten
    /\ \E i, j \in 1..Len(silver["claims"].rows) :
          /\ silver["claims"].rows[i].readmission_date = Num(852)
          /\ silver["claims"].rows[i].readmission_flag = 1
          /\ silver["claims"].rows[j].readmission_date = Num(864)
          /\ silver["claims"].rows[j].readmission_flag = 0

-----------------------------------------------------------------------------
(* C4 *)

PatientRow(id, age) ==
    [patient_id |-> id, age |-> age, chronic_conditions |-> Num(1),
     last_visit_date |-> Num(0)]

\* ages around the edges of the valid range and of the bins
AgeCells == {Num(-1), Num(0), Num(1), Num(18), Num(19), Num(35), Num(36), Num(50),
             Num(51), Num(65), Num(66), Num(100), Num(101), Num(120), Num(121),
             Str, NaN}

PatientsInputs ==
    {Frame(PatientsColumns, rows) :
        rows \in SeqUpTo({PatientRow(id, a) : id \in Ids, a \in AgeCells}, MaxRows)}
    \cup {Frame(PatientsColumns \ {c}, rows) :
            c \in {"age", "chronic_conditions"},
            rows \in SeqUpTo({PatientRow(1, Num(40))}, MaxRows)}

InitPatients == \E df \in PatientsInputs : Start(Only("patients", df), NoArtifacts)

NextPatients == TransformCall("patients")

\* transform_patients_data over bronze patients whose age varies
SpecPatients == InitPatients /\ [][NextPatients]_vars

PatientsWritten == "patients" \in tdone

\* a patient of age 0 passed cleaning
C4_Reached ==
    /\ PatientsWritten
    /\ \E i \in 1..Len(silver["patients"].rows) : silver["patients"].rows[i].age = Num(0)

\* C4: every patient that survives cleaning (0 <= age <= 120) has exactly one
\* of the five age categories
C4_AgeCategoryTotal ==
    PatientsWritten =>
        \A i \in 1..Len(silver["patients"].rows) :
            silver["patients"].rows[i].age_category \in
                {"Pediatric", "Young Adult", "Adult", "Middle Age", "Senior"}

-----------------------------------------------------------------------------
(* C3 *)

PrescriptionRow(id, supplied, prescribed, quantity, cost) ==
    [prescription_id |-> id, medication_name |-> "Metformin",
     days_supplied |-> supplied, days_prescribed |-> prescribed,
     quantity |-> quantity, cost |-> cost]

\* prescriptions supplied for less than, exactly and more than the prescribed
\* days, and prescriptions one of whose numbers cleaning rejects
PrescriptionRows ==
    {PrescriptionRow(id, s, p, Num(60), Num(40)) :
        id \in Ids, s \in {Num(7), Num(15), Num(24), Num(30), Num(90)},
        p \in {Num(30), Num(90)}}
    \cup {PrescriptionRow(id, s, Num(30), Num(60), Num(40)) :
             id \in Ids, s \in {Num(0), Num(-7), NaN}}
    \cup {PrescriptionRow(id, Num(30), p, Num(60), Num(40)) :
             id \in Ids, p \in {Num(0), Num(-30), Str}}
    \cup {PrescriptionRow(id, Num(30), Num(30), Num(0), Num(40)) : id \in Ids}
    \cup {PrescriptionRow(id, Num(30), Num(30), Num(60), Str) : id \in Ids}

PrescriptionsInputs ==
    {Frame(PrescriptionsColumns, rows) : rows \in SeqUpTo(PrescriptionRows, MaxRows)}
    \cup {Frame(PrescriptionsColumns \ {c}, rows) :
            c \in {"days_supplied", "patient_id"},
            rows \in SeqUpTo({PrescriptionRow(1, Num(30), Num(30), Num(60), Num(40))},
                             MaxRows)}

InitPrescriptions ==
    \E df \in PrescriptionsInputs : Start(Only("prescriptions", df), NoArtifacts)

NextPrescriptions == TransformCall("prescriptions")

\* transform_prescriptions_data over bronze prescriptions whose days vary
SpecPrescriptions == InitPrescriptions /\ [][NextPrescriptions]_vars

PrescriptionsWritten == "prescriptions" \in tdone

\* C3: the adherence_rate of every silver prescription lies in [0,1], is
\* days_supplied/days_prescribed when days_supplied < days_prescribed, and is
\* exactly 1, categorised Good, when days_supplied >= days_prescribed
C3_AdherenceRate ==
    PrescriptionsWritten =>
        \A i \in 1..Len(silver["prescriptions"].rows) :
            LET r == silver["prescriptions"].rows[i]
                a == r.adherence_rate
                s == r.days_supplied.v
                p == r.days_prescribed.v
            IN  /\ a.den > 0 /\ 0 <= a.num /\ a.num <= a.den
                /\ s < p => a.num * p = s * a.den
                /\ s >= p => a.num = a.den /\ r.adherence_category = "Good"

\* 90 days supplied for 30 prescribed: rate 1, Good; beside a partial supply
C3_Witness ==
    /\ PrescriptionsWritten
    /\ \E i, j \in 1..Len(silver["prescriptions"].rows) :
          LET r == silver["prescriptions"].rows[i]
              q == silver["prescriptions"].rows[j]
          IN  /\ r.days_supplied = Num(90) /\ r.days_prescribed = Num(30)
              /\ r.adherence_rate = Frac(1, 1) /\ r.adherence_category = "Good"
              /\ q.days_supplied = Num(7) /\ q.days_prescribed = Num(30)
              /\ q.adherence_rate = Frac(7, 30)

-----------------------------------------------------------------------------
(* C6 *)

\* a bronze artifact per entity that transforms, with one row cleaning keeps
\* and one it drops
ValidBronze ==
    [e \in Entities |->
        CASE e = "claims" ->
                Frame(ClaimsColumns, <<ClaimRow(1, Num(500), Num(2), Num(120), Num(144)),
                                       ClaimRow(2, Num(-50), Num(2), Num(120), NaN)>>)
          [] e = "patients" ->
                Frame(PatientsColumns, <<PatientRow(1, Num(40)), PatientRow(2, Num(121))>>)
          [] e = "providers" ->
                Frame(ProvidersColumns, <<[provider_id |-> 1, beds |-> Num(250)],
                                          [provider_id |-> 2, beds |-> Num(0)]>>)
          [] e = "prescriptions" ->
                Frame(PrescriptionsColumns,
                      <<PrescriptionRow(1, Num(90), Num(30), Num(60), Num(40)),
                        PrescriptionRow(2, Num(30), Num(30), Num(0), Num(40))>>)]

\* a bronze artifact per entity whose transform raises: claims and
\* prescriptions fail validation, patients and providers fail in cleaning
BrokenBronze ==
    [e \in Entities |->
        CASE e = "claims" ->
                Frame(ClaimsColumns \ {"provider_id"},
                      <<ClaimRow(1, Num(500), Num(2), Num(120), NaN)>>)
          [] e = "patients" ->
                Frame(PatientsColumns \ {"gender"}, <<PatientRow(1, Num(40))>>)
          [] e = "providers" ->
                Frame(ProvidersColumns \ {"state"}, <<[provider_id |-> 1, beds |-> Num(250)]>>)
          [] e = "prescriptions" ->
                Frame(PrescriptionsColumns \ {"patient_id"},
                      <<PrescriptionRow(1, Num(30), Num(30), Num(60), Num(40))>>)]

\* silver artifacts an earlier run over other bronze data has left
StaleSilver ==
    [e \in Entities |->
        CASE e = "claims" ->
                transform_claims_data(
                    Frame(ClaimsColumns, <<ClaimRow(2, Num(1001), Num(8), Num(120), NaN)>>)).df
          [] e = "patients" ->
                transform_patients_data(StartNow, Frame(PatientsColumns, <<PatientRow(2, Num(70))>>)).df
          [] e = "providers" ->
                transform_providers_data(
                    Frame(ProvidersColumns, <<[provider_id |-> 2, beds |-> Num(700)]>>)).df
          [] e = "prescriptions" ->
                transform_prescriptions_data(
                    Frame(PrescriptionsColumns,
                          <<PrescriptionRow(2, Num(15), Num(30), Num(60), Num(40))>>)).df]

BronzeStores == [Entities -> {"valid", "broken", "absent"}]

BronzeStore(kind) ==
    [e \in Entities |->
        CASE kind[e] = "valid" -> ValidBronze[e]
          [] kind[e] = "broken" -> BrokenBronze[e]
          [] kind[e] = "absent" -> Absent]

InitTransformAll ==
    \E kind \in BronzeStores, sv \in {NoArtifacts, StaleSilver} :
        Start(BronzeStore(kind), sv)

NextTransformAll ==
    \/ TransformAllBegin
    \/ TransformAllStep
    \/ \E e \in Entities : TransformCall(e)
    \/ TransformerLeft

\* the transformer's calls over bronze stores whose artifacts transform, raise
\* or are missing
SpecTransformAll == InitTransformAll /\ [][NextTransformAll]_vars

Transforms(e) == transform_data(e, bronze[e]).ok

TransformAllOver == tcall = "all" /\ tpc \in {"returned", "raised"}

InLog(log, x) == \E i \in 1..Len(log) : log[i] = x

\* C6 as stated: when transform_all_data is over, every entity's transform has
\* been executed, the silver artifact of every entity that transforms is
\* written, and the call has failed iff some entity's transform failed
C6_Independent ==
    TransformAllOver =>
        /\ \A e \in Entities : InLog(tlog, e)
        /\ \A e \in Entities :
              Transforms(e) => silver[e] = transform_data(e, bronze[e]).df
        /\ tpc = "raised" <=> \E e \in Entities : ~Transforms(e)

\* C6 amended: transform_all_data runs the entity transforms in the order
\* claims, patients, providers, prescriptions and stops at the first that
\* fails: the call is then over as failed, the entities before the failing one
\* are written, the failing one and those after it keep the silver artifact
\* they had, and those after it are not executed; it returns only when all
\* four have been written
C6_FailFast ==
    tcall = "all" =>
        /\ tlog = SubSeq(TransformOrder, 1, Len(tlog))
        /\ tpc = "raised" =>
              /\ Len(tlog) >= 1
              /\ ~Transforms(tlog[Len(tlog)])
              /\ \A i \in 1..Len(TransformOrder) :
                    LET e == TransformOrder[i]
                    IN  IF i < Len(tlog)
                        THEN e \in tdone /\ silver[e] = transform_data(e, bronze[e]).df
                        ELSE e \notin tdone /\ silver[e] = silver0[e]
        /\ tpc = "returned" =>
              /\ tdone = Entities
              /\ \A e \in Entities :
                    Transforms(e) /\ silver[e] = transform_data(e, bronze[e]).df

\* patients failed after claims was written; providers and prescriptions
\* would transform but were not run and keep their stale artifacts
C6_Witness ==
    /\ tcall = "all"
    /\ tpc = "raised"
    /\ tlog = <<"claims", "patients">>
    /\ Transforms("providers")
    /\ Transforms("prescriptions")
    /\ silver["claims"] = transform_data("claims", bronze["claims"]).df
    /\ silver["prescriptions"] = StaleSilver["prescriptions"]

-----------------------------------------------------------------------------
(* C7 .. C10 *)

SilverStores == [Entities -> BOOLEAN]

\* the tables as an earlier run over other data has left them
StaleWarehouse ==
    [e \in Entities |->
        prepare_for_db(e, StaleSilver[e], ReferenceMedications, TRUE).rows]

\* the silver store the transforms leave of ValidBronze, some artifacts
\* missing; prescriptions may be an artifact of more than one batch
SilverStore(present, batches) ==
    [e \in Entities |->
        IF ~present[e] THEN Absent
        ELSE IF batches /\ e = "prescriptions"
        THEN Frame(PrescriptionsColumns \cup PrescriptionsDerivedColumns,
                   [i \in 1..(chunk_size + 1) |->
                       PrescriptionsFeatures(
                           PrescriptionRow(i, Num(30), Num(30), Num(60), Num(40)))])
        ELSE transform_data_at(StartNow, e, ValidBronze[e]).df]

InitLoad ==
    \E present \in SilverStores, wh \in {EmptyWarehouse, StaleWarehouse} :
        StartWith(NoSources, ValidBronze, SilverStore(present, FALSE),
                  wh, ReferenceMedications)

NextLoad ==
    \/ LoadAllBegin
    \/ LoadAllConnect
    \/ LoadAllSchema
    \/ LoadAllEntity
    \/ LoadAllDerived
    \/ LoadAllMetrics
    \/ LoadAllViews
    \/ LoadAllReturn
    \/ LoaderLeft

\* load_all_data over silver stores some of whose artifacts are missing, with
\* a warehouse whose every step may fail
SpecLoad == InitLoad /\ [][NextLoad]_vars

AllLoadsOk == \A e \in Entities : lres[e] = "ok"

\* C7: load_all_data returns True iff the connection, the schema step and all
\* four entity loads reported success
C7_LoadAllResult ==
    lpc = "returned" =>
        (lret = "True" <=>
            /\ lres["connect"] = "ok"
            /\ lres["schema"] = "ok"
            /\ AllLoadsOk)

\* only the first entity load failed, and the call returned False
C7_Witness ==
    /\ lpc = "returned"
    /\ lret = "False"
    /\ lres["patients"] = "fail"
    /\ \A e \in Entities \ {"patients"} : lres[e] = "ok"

CountIn(log, x) == Cardinality({i \in 1..Len(log) : log[i] = x})

\* C8: no entity load is attempted twice, and once the connection and the
\* schema step have succeeded every entity load has been attempted exactly
\* once by the time the loads are over, whatever the earlier loads reported
C8_AllEntitiesAttempted ==
    /\ \A e \in Entities : CountIn(llog, e) <= 1
    /\ \A e \in Entities : lres[e] # "none" <=> InLog(llog, e)
    /\ (lres["schema"] = "ok" /\ lpc \in {"derived", "metrics", "views", "finish", "returned"})
          => \A e \in Entities : CountIn(llog, e) = 1

\* patients, providers and claims failed and prescriptions was still loaded
C8_Witness ==
    /\ lpc = "returned"
    /\ lres["patients"] = "fail"
    /\ lres["providers"] = "fail"
    /\ lres["claims"] = "fail"
    /\ lres["prescriptions"] = "ok"
    /\ warehouse["prescriptions"] =
          prepare_for_db("prescriptions", silver["prescriptions"], medications, TRUE).rows

IndexIn(log, x) == CHOOSE i \in 1..Len(log) : log[i] = x

\* C9: update_provider_metrics runs only after all four entity loads have run
\* and reported success, and a load_all_data call that has returned has run it
\* iff all four entity loads reported success
C9_MetricsIffAllLoaded ==
    /\ lres["metrics"] # "none" =>
          /\ AllLoadsOk
          /\ InLog(llog, "metrics")
          /\ \A e \in Entities :
                InLog(llog, e) /\ IndexIn(llog, e) < IndexIn(llog, "metrics")
    /\ lpc \in {"finish", "returned"} => (lres["metrics"] # "none" <=> AllLoadsOk)

\* all four loads succeeded and the update ran (and failed) before the return
C9_Witness ==
    /\ lpc = "returned"
    /\ AllLoadsOk
    /\ lres["metrics"] = "fail"
    /\ llog[Len(llog) - 1] = "metrics"

EntityLoads(log) == SelectSeq(log, LAMBDA x : x \in Entities)

\* C10: the entity loads start in the order patients, providers, claims,
\* prescriptions: when a fact-table load starts both dimension loads have
\* finished, successfully or not
C10_DimensionsBeforeFacts ==
    /\ EntityLoads(llog) = SubSeq(<<"patients", "providers", "claims", "prescriptions">>,
                                  1, Len(EntityLoads(llog)))
    /\ \A f \in Facts :
          (lpc = f \/ InLog(llog, f)) =>
              \A d \in Dimensions :
                  /\ lres[d] # "none"
                  /\ InLog(llog, d)
                  /\ InLog(llog, f) => IndexIn(llog, d) < IndexIn(llog, f)

\* the claims load is about to start after a failed patients load
C10_Witness ==
    /\ lpc = "claims"
    /\ lres["patients"] = "fail"
    /\ lres["providers"] = "ok"
    /\ llog = <<"connect", "schema", "patients", "providers">>

-----------------------------------------------------------------------------
(* C11 *)

-----------------------------------------------------------------------------
(* C12 .. C14: the entity loads called one at a time *)

\* silver artifacts of n rows, as the transforms write them
SilverClaims(n) ==
    Frame(ClaimsColumns \cup ClaimsDerivedColumns,
          [i \in 1..n |->
              ClaimsFeatures(ClaimsColumns, ClaimRow(i, Num(500), Num(2), Num(130), NaN))])

MedicationNames == <<"Metformin", "Lisinopril", "Newdrug">>

SilverPrescriptions(n) ==
    Frame(PrescriptionsColumns \cup PrescriptionsDerivedColumns,
          [i \in 1..n |->
              PrescriptionsFeatures(
                  [PrescriptionRow(i, Num(30), Num(30), Num(60), Num(40))
                      EXCEPT !.medication_name = MedicationNames[(i % 3) + 1]])])

SilverPatients(n) ==
    Frame(PatientsColumns \cup PatientsDerivedColumns,
          [i \in 1..n |-> PatientsFeatures(StartNow, PatientRow(i, Num(40)))])

SilverProviders(n) ==
    Frame(ProvidersColumns \cup ProvidersDerivedColumns,
          [i \in 1..n |-> ProvidersFeatures([provider_id |-> i, beds |-> Num(250)])])

\* row counts around the batch size: no batch, one short batch, one and two
\* full batches, a full batch and a short one
FactSizes == {0, 1, chunk_size, chunk_size + 1, 2 * chunk_size}

DimensionSizes == 0..MaxRows

\* the silver artifacts a load is called on; the last prescriptions frame
\* comes from a bronze frame without provider_id, which the transform accepts
LoadInputs(e) ==
    CASE e = "claims" -> {SilverClaims(n) : n \in FactSizes}
      [] e = "prescriptions" ->
            {SilverPrescriptions(n) : n \in FactSizes}
            \cup {Frame(SilverPrescriptions(1).cols \ {"provider_id"},
                        SilverPrescriptions(1).rows)}
      [] e = "patients" -> {SilverPatients(n) : n \in DimensionSizes}
      [] e = "providers" -> {SilverProviders(n) : n \in DimensionSizes}

\* the medications tables a load is called with
MedicationTables(e) ==
    IF e = "prescriptions" THEN {ReferenceMedications, {}} ELSE {ReferenceMedications}

InitLoadCalls ==
    \E e \in Entities :
        \E df \in LoadInputs(e), wh \in {EmptyWarehouse, StaleWarehouse},
           meds \in MedicationTables(e) :
            StartWith(NoSources, NoArtifacts, Only(e, df), wh, meds)

NextLoadCalls ==
    \/ \E e \in Entities : silver[e].exists /\ LoadCall(e)
    \/ LoaderLeft

\* load_<e>_data called repeatedly on one silver artifact, over empty and
\* filled tables
SpecLoadCalls == InitLoadCalls /\ [][NextLoadCalls]_vars

\* the rows the table of e holds when it holds exactly the silver artifact
SilverAsLoaded(e) ==
    prepare_for_db(e, silver[e], medications, lres["lookup"] # "fail").rows

\* C12: after a fact-table load that reported success the table holds exactly
\* the rows of the silver artifact, in order, whatever it held before and
\* whatever the number of silver rows, zero included
C12_FactTableHoldsSilver ==
    \A e \in Facts :
        (lcall = e /\ lret = "True") => warehouse[e] = SilverAsLoaded(e)

\* two batches have replaced the row of an earlier run
C12_Reached ==
    /\ lcall = "claims"
    /\ lret = "True"
    /\ Len(silver["claims"].rows) = 2 * chunk_size
    /\ warehouse0["claims"] = StaleWarehouse["claims"]
    /\ warehouse["claims"] = SilverAsLoaded("claims")

\* C13: after a dimension load that reported success the table holds exactly
\* the rows of the silver artifact and none it held before; a load over a
\* table that already holds them leaves it as it is
C13_DimensionReplaced ==
    \A e \in Dimensions :
        (lcall = e /\ lret = "True") =>
            /\ warehouse[e] = SilverAsLoaded(e)
            /\ Len(warehouse[e]) = Len(silver[e].rows)
            /\ warehouse0[e] = SilverAsLoaded(e) => warehouse[e] = warehouse0[e]

\* the second load of two patients over the table the first load has left,
\* the first having replaced the row of an earlier run
C13_Witness ==
    /\ lcall = "patients"
    /\ lret = "True"
    /\ Len(silver["patients"].rows) = 2
    /\ warehouse0["patients"] = SilverAsLoaded("patients")
    /\ warehouse["patients"] = warehouse0["patients"]
    /\ warehouse["providers"] = StaleWarehouse["providers"]
    /\ warehouse["providers"] # <<>>

InTable(meds, name) == \E m \in meds : m.medication_name = name

IdOf(meds, name) == (CHOOSE m \in meds : m.medication_name = name).medication_id

\* C14 as stated: the prescriptions load keeps every row, gives each row
\* whose medication_name is in the medications table that table's
\* medication_id and each other row the id 0
C14_MedicationIds ==
    (lcall = "prescriptions" /\ lret = "True" /\ silver["prescriptions"].rows # <<>>) =>
        /\ Len(warehouse["prescriptions"]) = Len(silver["prescriptions"].rows)
        /\ \A i \in 1..Len(warehouse["prescriptions"]) :
              LET r == warehouse["prescriptions"][i]
              IN  /\ r.prescription_id = silver["prescriptions"].rows[i].prescription_id
                  /\ r.medication_name = silver["prescriptions"].rows[i].medication_name
                  /\ r.medication_id =
                        IF InTable(medications, r.medication_name)
                        THEN Num(IdOf(medications, r.medication_name))
                        ELSE Num(0)

\* C14 amended: the prescriptions load keeps every row; when the medications
\* query answers, each row whose medication_name is in the table gets the
\* table's medication_id and each other row the id 0; when the query raises,
\* every row gets the id 0
C14_MedicationIdsOrSentinel ==
    (lcall = "prescriptions" /\ lret = "True" /\ silver["prescriptions"].rows # <<>>) =>
        /\ Len(warehouse["prescriptions"]) = Len(silver["prescriptions"].rows)
        /\ lres["lookup"] \in {"ok", "fail"}
        /\ \A i \in 1..Len(warehouse["prescriptions"]) :
              LET r == warehouse["prescriptions"][i]
              IN  /\ r.prescription_id = silver["prescriptions"].rows[i].prescription_id
                  /\ r.medication_name = silver["prescriptions"].rows[i].medication_name
                  /\ r.medication_id =
                        IF lres["lookup"] = "ok" /\ InTable(medications, r.medication_name)
                        THEN Num(IdOf(medications, r.medication_name))
                        ELSE Num(0)

\* the query answered: of three loaded rows two have the ids of the table and
\* the one with the unknown name has 0
C14_Witness ==
    /\ lcall = "prescriptions"
    /\ lret = "True"
    /\ lres["lookup"] = "ok"
    /\ medications = ReferenceMedications
    /\ Len(warehouse["prescriptions"]) = chunk_size + 1
    /\ warehouse["prescriptions"][1].medication_name = "Lisinopril"
    /\ warehouse["prescriptions"][1].medication_id = Num(2)
    /\ warehouse["prescriptions"][2].medication_name = "Newdrug"
    /\ warehouse["prescriptions"][2].medication_id = Num(0)
    /\ warehouse["prescriptions"][3].medication_id = Num(1)

-----------------------------------------------------------------------------
(* C15 *)

InitLoadBatches ==
    \E wh \in {EmptyWarehouse, StaleWarehouse}, batches \in BOOLEAN :
        StartWith(NoSources, ValidBronze, SilverStore([e \in Entities |-> TRUE], batches),
                  wh, ReferenceMedications)

NextLoadBatches ==
    \/ LoadAllBegin
    \/ LoadAllConnect
    \/ LoadAllSchema
    \/ LoadAllEntity
    \/ LoadAllDerived
    \/ LoadAllMetrics
    \/ LoadAllViews
    \/ LoadAllReturn

\* one load_all_data call over a full silver store whose prescriptions take
\* one batch or two
SpecLoadBatches == InitLoadBatches /\ [][NextLoadBatches]_vars

\* load_all_data has returned after the prescriptions load failed and the
\* loads of patients, providers and claims succeeded over non-empty artifacts
PrescriptionsAloneFailed ==
    /\ lcall = "all"
    /\ lpc = "returned"
    /\ lres["prescriptions"] = "fail"
    /\ \A e \in Entities \ {"prescriptions"} : lres[e] = "ok" /\ silver[e].rows # <<>>

\* C15 as stated: load_all_data has then returned False, and
\* verify_data_integrity reports for patients, providers and claims the
\* nonzero row counts of their silver artifacts and for prescriptions zero or
\* the count the table had before the run
C15_PartialLoadCounts ==
    PrescriptionsAloneFailed =>
        LET counts == verify_data_integrity(warehouse, TRUE)
        IN  /\ lret = "False"
            /\ \A e \in Entities \ {"prescriptions"} :
                  counts[e] = Len(silver[e].rows) /\ counts[e] > 0
            /\ counts["prescriptions"] \in {0, Len(warehouse0["prescriptions"])}

\* C15 amended: for prescriptions verify_data_integrity reports the count the
\* table had before the run when the load failed before its first write, and
\* otherwise the number of silver rows in the batches written before the
\* failure, which is all of them when the count query after the writes failed
C15_PartialLoadPreserved ==
    PrescriptionsAloneFailed =>
        LET counts == verify_data_integrity(warehouse, TRUE)
            n == Len(silver["prescriptions"].rows)
        IN  /\ lret = "False"
            /\ \A e \in Entities \ {"prescriptions"} :
                  /\ counts[e] = Len(silver[e].rows) /\ counts[e] > 0
                  /\ warehouse[e] = SilverAsLoaded(e)
            /\ \/ warehouse["prescriptions"] = warehouse0["prescriptions"]
               \/ \E k \in 1..NumChunks(n) :
                     /\ warehouse["prescriptions"] =
                           SubSeq(SilverAsLoaded("prescriptions"), 1, Min(k * chunk_size, n))
                     /\ counts["prescriptions"] = Min(k * chunk_size, n)

\* the second batch of prescriptions failed: the first batch is in the table,
\* and the three loaded entities have replaced the rows of the earlier run
C15_Witness ==
    /\ PrescriptionsAloneFailed
    /\ lret = "False"
    /\ warehouse0 = StaleWarehouse
    /\ Len(warehouse["prescriptions"]) = chunk_size
    /\ Len(silver["prescriptions"].rows) = chunk_size + 1
    /\ verify_data_integrity(warehouse, TRUE)["claims"] = 1
    /\ warehouse["claims"] # warehouse0["claims"]

-----------------------------------------------------------------------------
(* The extractor's calls *)

\* the frame pd.read_csv(file_path) returns for the file of an entity
read_csv(e) == ValidBronze[e]

\* a direct call of extract_<e>_data(file_path)
ExtractCall(e) ==
    /\ epc = "idle"
    /\ LET out == extract_data(e, sources[e], read_csv(e))
       IN  /\ bronze' = IF out.ok THEN save_parquet(bronze, e, out.df) ELSE bronze
           /\ bronze_meta' = IF out.ok THEN [bronze_meta EXCEPT ![e] = out.meta]
                             ELSE bronze_meta
           /\ epc' = IF out.ok THEN "returned" ELSE "raised"
           /\ edone' = IF out.ok THEN {e} ELSE {}
    /\ ecall' = e
    /\ elog' = <<e>>
    /\ bronze0' = bronze
    /\ UNCHANGED <<sources, svars, lvars, pvars>>

\* mutant: entering extract_all_data removes the silver artifacts
ExtractAllBegin_clears_silver ==
    /\ epc = "idle"
    /\ ecall' = "all"
    /\ epc' = ExtractOrder[1]
    /\ elog' = <<>>
    /\ edone' = {}
    /\ bronze0' = bronze
    /\ silver' = NoArtifacts
    /\ UNCHANGED <<sources, bronze, bronze_meta, silver0, tcall, tpc, tlog, tdone,
                   lvars, pvars>>

\* extract_all_data(data_sources) is entered
ExtractAllBegin ==
    /\ epc = "idle"
    /\ ecall' = "all"
    /\ epc' = ExtractOrder[1]
    /\ elog' = <<>>
    /\ edone' = {}
    /\ bronze0' = bronze
    /\ UNCHANGED <<sources, bronze, bronze_meta, svars, lvars, pvars>>

\* results[e] = self.extract_<e>_data(data_sources.get(e)) inside extract_all_data
ExtractAllStep ==
    /\ ecall = "all"
    /\ \E i \in 1..Len(ExtractOrder) :
          /\ epc = ExtractOrder[i]
          /\ LET e == ExtractOrder[i]
                 out == extract_data(e, sources[e], read_csv(e))
             IN  /\ bronze' = IF out.ok THEN save_parquet(bronze, e, out.df) ELSE bronze
                 /\ bronze_meta' = IF out.ok THEN [bronze_meta EXCEPT ![e] = out.meta]
                                   ELSE bronze_meta
                 /\ epc' = IF out.ok THEN AfterExtract(i) ELSE AfterFailedExtract(i)
                 /\ edone' = IF out.ok THEN edone \cup {e} ELSE edone
                 /\ elog' = Append(elog, e)
    /\ UNCHANGED <<sources, bronze0, ecall, svars, lvars, pvars>>

\* the call has returned or raised and the caller goes on
ExtractorLeft ==
    /\ epc \in {"returned", "raised"}
    /\ epc' = "idle"
    /\ UNCHANGED <<sources, bronze, bronze_meta, bronze0, ecall, elog, edone,
                   svars, lvars, pvars>>

SourceStores == [Entities -> SourceKinds]

InitExtract ==
    \E src \in SourceStores, b \in {NoArtifacts, BrokenBronze} :
        StartWith(src, b, NoArtifacts, EmptyWarehouse, ReferenceMedications)

NextExtract ==
    \/ ExtractAllBegin
    \/ ExtractAllStep
    \/ \E e \in Entities : ExtractCall(e)
    \/ ExtractorLeft

\* the extractor's calls over sources that are not given, missing, readable
\* or unreadable, and over an empty or an earlier bronze store
SpecExtract == InitExtract /\ [][NextExtract]_vars

-----------------------------------------------------------------------------
(* C17 *)

\* the running or last extractor call has extracted e
Extracted(e) == InLog(elog, e) /\ e \in edone

\* C17: once an entity has been extracted, its bronze artifact holds the rows
\* of the source when a path was given and exists and the generated rows
\* otherwise; its metadata has stage "bronze", and its source field is the
\* path exactly when the rows were read from the path and "generated" exactly
\* when they were generated
C17_Provenance ==
    \A e \in Entities :
        Extracted(e) =>
            LET fromfile == sources[e] = "file"
            IN  /\ bronze[e] = IF fromfile THEN read_csv(e) ELSE SampleData[e]
                /\ bronze_meta[e].pipeline_stage = "bronze"
                /\ bronze_meta[e].source = file_path(e, "file") <=> fromfile
                /\ bronze_meta[e].source = "generated" <=> ~fromfile

\* claims was read from its file and overwrote the earlier artifact
C17_Reached ==
    /\ ecall = "claims"
    /\ epc = "returned"
    /\ sources["claims"] = "file"
    /\ bronze0["claims"] = BrokenBronze["claims"]
    /\ bronze["claims"] = read_csv("claims")
    /\ bronze_meta["claims"].source = "data/claims.csv"

-----------------------------------------------------------------------------
(* C18 *)

Extracts(e) == sources[e] # "corrupt"

\* C18: extract_all_data runs the extractions in the order claims, patients,
\* providers, prescriptions; it returns only with all four entities in its
\* mapping, each bronze artifact overwritten; when an extraction raises the
\* call is over as raised at once: the entities before it have overwritten
\* their bronze artifacts, the one that raised and those after it keep the
\* artifact they had, and those after it are not extracted
C18_AllOrRaise ==
    ecall = "all" =>
        /\ elog = SubSeq(ExtractOrder, 1, Len(elog))
        /\ epc = "returned" =>
              /\ edone = Entities
              /\ elog = ExtractOrder
              /\ \A e \in Entities :
                    Extracts(e) /\ bronze[e] = extract_data(e, sources[e], read_csv(e)).df
        /\ epc = "raised" =>
              /\ Len(elog) >= 1
              /\ ~Extracts(elog[Len(elog)])
              /\ \A i \in 1..Len(ExtractOrder) :
                    LET e == ExtractOrder[i]
                    IN  IF i < Len(elog)
                        THEN /\ e \in edone
                             /\ bronze[e] = extract_data(e, sources[e], read_csv(e)).df
                        ELSE e \notin edone /\ bronze[e] = bronze0[e]
        /\ (\E e \in Entities : ~Extracts(e) /\ InLog(elog, e)) => epc \in {"raised", "idle"}

\* providers raised after claims and patients were overwritten; prescriptions
\* would extract but was not run and keeps its earlier artifact
C18_Witness ==
    /\ ecall = "all"
    /\ epc = "raised"
    /\ elog = <<"claims", "patients", "providers">>
    /\ Extracts("prescriptions")
    /\ bronze0 = BrokenBronze
    /\ bronze["claims"] = SampleData["claims"]
    /\ bronze["patients"] = read_csv("patients")
    /\ bronze["prescriptions"] = BrokenBronze["prescriptions"]

-----------------------------------------------------------------------------
(* C19 *)

\* the required columns _validate_<e>_data asks for
RequiredColumns(e) ==
    CASE e = "claims" -> ClaimsRequiredColumns
      [] e = "patients" -> PatientsRequiredColumns
      [] e = "providers" -> ProvidersRequiredColumns
      [] e = "prescriptions" -> PrescriptionsRequiredColumns

\* the columns of the dataset _validate_<e>_data is handed: those of the
\* bronze artifact and those feature engineering adds
ValidatedColumns(e) ==
    bronze[e].cols \cup
        (CASE e = "claims" -> ClaimsDerivedColumns
           [] e = "patients" -> PatientsDerivedColumns
           [] e = "providers" -> ProvidersDerivedColumns
           [] e = "prescriptions" -> PrescriptionsDerivedColumns)

\* cleaning and feature engineering of e's bronze artifact go through, so the
\* transform gets as far as validation
ReachesValidation(e) == transform_data(e, bronze[e]).stage \in {"validate", "write"}

\* the rows feature engineering makes of the cleaned rows
EngineeredCleanRows(e) ==
    CASE e = "claims" ->
            _engineer_claims_features(bronze[e].cols,
                                      _clean_claims_data(bronze[e].cols, bronze[e].rows))
      [] e = "patients" -> _engineer_patients_features(now, _clean_patients_data(bronze[e].rows))
      [] e = "providers" -> _engineer_providers_features(_clean_providers_data(bronze[e].rows))
      [] e = "prescriptions" ->
            _engineer_prescriptions_features(_clean_prescriptions_data(bronze[e].rows))

\* C19: an entity transform whose cleaned and engineered dataset lacks a
\* required column raises before the write, and the entity's silver artifact
\* is what it was before the call, not created and not overwritten; a
\* transform that wrote has passed validation and has written the engineered
\* cleaned rows
C19_ValidateBeforeWrite ==
    \A e \in Entities :
        InLog(tlog, e) =>
            /\ (ReachesValidation(e) /\ ~(RequiredColumns(e) \subseteq ValidatedColumns(e))) =>
                  /\ e \notin tdone
                  /\ silver[e] = silver0[e]
                  /\ tlog[Len(tlog)] = e
                  /\ tpc \in {"raised", "idle"}
            /\ e \in tdone =>
                  /\ RequiredColumns(e) \subseteq ValidatedColumns(e)
                  /\ silver[e] = Frame(ValidatedColumns(e), EngineeredCleanRows(e))

\* transform_claims_data over a bronze artifact without provider_id has
\* raised and the stale silver artifact is still there
C19_Witness ==
    /\ tcall = "claims"
    /\ tpc = "raised"
    /\ ReachesValidation("claims")
    /\ "provider_id" \notin bronze["claims"].cols
    /\ silver["claims"] = StaleSilver["claims"]

-----------------------------------------------------------------------------
(* The scheduled pipeline: extract_task >> transform_task >> load_task *)

\* pipeline runs the schedule makes
MaxRuns == 2

\* hours the clock advances while the runs are made
MaxTicks == 1

\* the schedule starts a run of the DAG
PipelineStart ==
    /\ stage = "free"
    /\ stage' = "extract"
    /\ UNCHANGED <<runs, snap, now, dvars, evars, tvars, lvars>>

\* extract_task is over: transform_task follows its success only
PipelineAfterExtract ==
    /\ stage = "extract"
    /\ epc \in {"returned", "raised"}
    /\ epc' = "idle"
    /\ stage' = IF epc = "returned" THEN "transform" ELSE "failed"
    /\ UNCHANGED <<sources, bronze_meta, bronze0, ecall, elog, edone, runs, snap, now, dvars,
                   tvars, lvars>>

\* transform_task is over: load_task follows its success only
PipelineAfterTransform ==
    /\ stage = "transform"
    /\ tpc \in {"returned", "raised"}
    /\ tpc' = "idle"
    /\ stage' = IF tpc = "returned" THEN "load" ELSE "failed"
    /\ UNCHANGED <<bronze, silver, silver0, tcall, tlog, tdone, runs, snap, now, dvars,
                   evars, lvars>>

\* load_healthcare_data after load_all_data: it raises unless the loader
\* returned True, and reads the table counts otherwise; the run is then over
PipelineAfterLoad ==
    /\ stage = "load"
    /\ lpc \in {"returned", "raised"}
    /\ lpc' = "idle"
    /\ IF lpc = "returned" /\ lret = "True"
       THEN /\ runs' = runs + 1
            /\ snap' = IF runs = 0
                       THEN [silver |-> silver,
                             counts |-> verify_data_integrity(warehouse, TRUE)]
                       ELSE snap
            /\ stage' = IF runs + 1 < MaxRuns THEN "extract" ELSE "done"
       ELSE /\ stage' = "failed"
            /\ UNCHANGED <<runs, snap>>
    /\ UNCHANGED <<warehouse, warehouse0, medications, lcall, llog, lres, success, lret,
                   now, dvars, evars, tvars>>

\* the clock goes on by an hour
Tick ==
    /\ stage \notin {"free", "failed", "done"}
    /\ now < StartNow + MaxTicks
    /\ now' = now + 1
    /\ UNCHANGED <<stage, runs, snap, dvars, evars, tvars, lvars>>

\* every entity is read from its file
FileSources == [e \in Entities |-> "file"]

InitPipeline ==
    \E src \in {NoSources, FileSources}, sv \in {NoArtifacts, StaleSilver},
       wh \in {EmptyWarehouse, StaleWarehouse} :
        StartWith(src, NoArtifacts, sv, wh, ReferenceMedications)

NextPipeline ==
    \/ PipelineStart
    \/ stage = "extract" /\ ExtractAllBegin
    \/ ExtractAllStep
    \/ PipelineAfterExtract
    \/ stage = "transform" /\ TransformAllBegin
    \/ TransformAllStep
    \/ PipelineAfterTransform
    \/ stage = "load" /\ LoadAllBegin
    \/ LoadAllConnect
    \/ LoadAllSchema
    \/ LoadAllEntity
    \/ LoadAllDerived
    \/ LoadAllMetrics
    \/ LoadAllViews
    \/ LoadAllReturn
    \/ PipelineAfterLoad
    \/ Tick

\* MaxRuns runs of the pipeline one after the other over the same sources,
\* while the clock goes on
SpecPipeline == InitPipeline /\ [][NextPipeline]_vars

-----------------------------------------------------------------------------
(* C16 *)

\* a run has just been completed and the next has not begun
RunCompleted == stage \in {"extract", "done"} /\ epc = "idle" /\ runs >= 1

\* the columns of silver patients computed from datetime.now()
ClockColumns == {"days_since_last_visit", "patient_status"}

\* a row without the columns computed from the clock
Timeless(r) == [c \in DOMAIN r \ ClockColumns |-> r[c]]

TimelessRows(rows) == [i \in 1..Len(rows) |-> Timeless(rows[i])]

\* C16 as stated: after a second run of the full pipeline over the same
\* input, every silver artifact holds the rows the first run left and every
\* warehouse table counts the rows it counted after the first run
C16_Idempotent ==
    (RunCompleted /\ runs >= 2) =>
        /\ \A e \in Entities : silver[e].rows = snap.silver[e].rows
        /\ verify_data_integrity(warehouse, TRUE) = snap.counts

\* C16 amended: after a second run of the full pipeline over the same input,
\* every silver artifact holds the rows the first run left except for the
\* columns days_since_last_visit and patient_status of patients, which are
\* computed from the clock at the time of the transform, and every warehouse
\* table counts the rows it counted after the first run
C16_IdempotentButClock ==
    (RunCompleted /\ runs >= 2) =>
        /\ \A e \in Entities :
              /\ silver[e].cols = snap.silver[e].cols
              /\ TimelessRows(silver[e].rows) = TimelessRows(snap.silver[e].rows)
        /\ \A i \in 1..Len(silver["patients"].rows) :
              LET r == silver["patients"].rows[i]
              IN  \E t \in StartNow..now :
                     /\ r.days_since_last_visit = days_since_last_visit(t, r.last_visit_date)
                     /\ r.patient_status = patient_status(r.days_since_last_visit)
        /\ verify_data_integrity(warehouse, TRUE) = snap.counts

\* two runs are completed over a warehouse that held earlier rows, and the
\* second has counted a patient's days since the last visit anew
C16_Witness ==
    /\ RunCompleted
    /\ runs = 2
    /\ snap.counts["claims"] >= 1
    /\ snap.counts["patients"] >= 1
    /\ silver["patients"].rows # snap.silver["patients"].rows

-----------------------------------------------------------------------------
(* C20 *)

\* a step of an extractor, a transformer, a loader operation
ExtractorStep == epc' # epc \/ elog' # elog
TransformerStep == tpc' # tpc \/ tlog' # tlog
LoaderStep == lpc' # lpc \/ llog' # llog

\* C20: a step of an extract operation leaves the silver artifacts and the
\* warehouse tables as they are, a step of a transform operation the bronze
\* artifacts and the warehouse tables, a step of a loader operation the bronze
\* and silver artifacts; and a store changes only in a step of its own stage:
\* bronze in an extractor step, silver in a transformer step, the warehouse in
\* a loader step
C20_StageIsolation ==
    [][/\ ExtractorStep => (silver' = silver /\ warehouse' = warehouse)
       /\ TransformerStep => (bronze' = bronze /\ warehouse' = warehouse)
       /\ LoaderStep => (bronze' = bronze /\ silver' = silver)
       /\ bronze' # bronze => ExtractorStep
       /\ silver' # silver => TransformerStep
       /\ warehouse' # warehouse => LoaderStep]_vars

\* a run in which each stage has changed its own store: the extractor the
\* bronze store, the transformer the silver store, the loader the warehouse
C20_Witness ==
    /\ stage = "load"
    /\ lpc = "returned"
    /\ lret = "True"
    /\ bronze # bronze0
    /\ silver # silver0
    /\ warehouse # warehouse0

-----------------------------------------------------------------------------
(* etl_dag.py: the DAG run *)

\* default_args['retries']
retries == 2

\* the tasks set upstream of a task by the dependency lines
Upstream(t) ==
    CASE t = "extract" -> {}
      [] t = "transform" -> {"extract"}
      [] t = "load" -> {"transform"}
      [] t = "quality_check" -> {"load"}
      [] t = "analytics" -> {"quality_check"}
      [] t = "success_notification" -> {"analytics"}
      [] t = "failure_notification" -> {DagOrder[i] : i \in 1..Len(DagOrder)}

\* trigger_rule of a task: 'one_failed' is given to failure_notification only
trigger_rule(t) == IF t = "failure_notification" THEN "one_failed" ELSE "all_success"

UpstreamFailed(ts, t) == \E u \in Upstream(t) : ts[u] \in {"failed", "upstream_failed"}

UpstreamDone(ts, t) ==
    \A u \in Upstream(t) : ts[u] \in {"success", "failed", "upstream_failed", "skipped"}

\* mutant: one_failed read as all_success of the upstream tasks
Runnable_all_success(ts, t) == \A u \in Upstream(t) : ts[u] = "success"

\* the trigger rule lets the task run
Runnable(ts, t) ==
    IF trigger_rule(t) = "one_failed" THEN UpstreamFailed(ts, t)
    ELSE \A u \in Upstream(t) : ts[u] = "success"

\* what load_all_data() can hand its caller: its value, or an exception
LoadAllResults == {"True", "False", "raised"}

\* load_healthcare_data: raises unless load_all_data returned True
load_healthcare_data(ret) == IF ret = "True" THEN "success" ELSE "failure"

\* the state a task takes when its attempt has failed
AfterFailure(try) == IF try <= retries THEN "up_for_retry" ELSE "failed"

\* the scheduler starts an attempt of a task
TaskStart(t) ==
    /\ \/ task_state[t] = "none" /\ Runnable(task_state, t)
       \/ task_state[t] = "up_for_retry"
    /\ task_state' = [task_state EXCEPT ![t] = "running"]
    /\ try_number' = [try_number EXCEPT ![t] = @ + 1]
    /\ UNCHANGED <<stage, runs, snap, now, evars, tvars, lvars>>

\* an attempt of a task other than load ends: its callable returned or raised
TaskEnd(t) ==
    /\ t # "load"
    /\ task_state[t] = "running"
    /\ \E outcome \in {"success", "failure"} :
          task_state' = [task_state EXCEPT ![t] = IF outcome = "success" THEN "success"
                                                  ELSE AfterFailure(try_number[t])]
    /\ UNCHANGED <<try_number, stage, runs, snap, now, evars, tvars, lvars>>

\* an attempt of the load task ends with what load_all_data handed it
LoadTaskEnd ==
    /\ task_state["load"] = "running"
    /\ \E ret \in LoadAllResults :
          /\ lret' = ret
          /\ task_state' = [task_state EXCEPT !["load"] =
                                IF load_healthcare_data(ret) = "success" THEN "success"
                                ELSE AfterFailure(try_number["load"])]
    /\ UNCHANGED <<try_number, stage, runs, snap, now, evars, tvars,
                   warehouse, warehouse0, medications, lcall, lpc, llog, lres, success>>

\* a task whose trigger rule can no longer be met is not run
TaskNotRun(t) ==
    /\ task_state[t] = "none"
    /\ IF trigger_rule(t) = "one_failed"
       THEN /\ UpstreamDone(task_state, t)
            /\ ~UpstreamFailed(task_state, t)
            /\ task_state' = [task_state EXCEPT ![t] = "skipped"]
       ELSE /\ UpstreamFailed(task_state, t)
            /\ task_state' = [task_state EXCEPT ![t] = "upstream_failed"]
    /\ UNCHANGED <<try_number, stage, runs, snap, now, evars, tvars, lvars>>

InitDag == StartWith(NoSources, NoArtifacts, NoArtifacts, EmptyWarehouse, ReferenceMedications)

NextDag ==
    \/ \E t \in DagTasks : TaskStart(t)
    \/ \E t \in DagTasks : TaskEnd(t)
    \/ LoadTaskEnd
    \/ \E t \in DagTasks : TaskNotRun(t)

\* one DAG run; the scheduler goes on as long as a task can be started,
\* ended or marked
SpecDag == InitDag /\ [][NextDag]_vars /\ WF_vars(NextDag)

-----------------------------------------------------------------------------
(* C21 *)

\* the scheduler has started an attempt of the task
Started(t) == try_number[t] >= 1

\* no step starts before its predecessor has succeeded, no task gets more
\* than retries attempts after its first and none is failed with fewer, the
\* load step succeeds only when load_all_data returned True, and the e-mails
\* are sent only for a failed step and a succeeded report
C21_Order ==
    /\ \A i \in 2..Len(DagOrder) :
          Started(DagOrder[i]) => task_state[DagOrder[i - 1]] = "success"
    /\ \A t \in DagTasks :
          /\ try_number[t] <= retries + 1
          /\ task_state[t] = "failed" => try_number[t] = retries + 1
    /\ task_state["load"] = "success" => lret = "True"
    /\ (task_state["load"] \in {"up_for_retry", "failed"}) => lret \in {"False", "raised"}
    /\ Started("failure_notification") =>
          \E i \in 1..Len(DagOrder) : task_state[DagOrder[i]] = "failed"
    /\ Started("success_notification") => task_state["analytics"] = "success"

SomeStepFailed == \E i \in 1..Len(DagOrder) : task_state[DagOrder[i]] = "failed"

\* C21: the five steps run in the order extract, transform, load,
\* quality-check, report, each only after its predecessor has succeeded; a
\* step gets at most two retries; the load step fails when load_all_data
\* returns False; the failure notification is sent whenever a step has ended
\* failed, and the success notification only after the report has succeeded
C21_Scheduler ==
    /\ []C21_Order
    /\ SomeStepFailed ~> Started("failure_notification")

\* load_all_data has returned False three times: the load step has ended
\* failed after two retries and the failure notification has been started
C21_Witness ==
    /\ task_state["load"] = "failed"
    /\ try_number["load"] = retries + 1
    /\ lret = "False"
    /\ task_state["quality_check"] = "upstream_failed"
    /\ Started("failure_notification")
    /\ ~Started("success_notification")

-----------------------------------------------------------------------------
(* Cleaning and feature engineering over rows with repeated keys and with
   cells at the edges of the ranges and of the bins *)

ProviderRow(id, beds) == [provider_id |-> id, beds |-> beds]

\* the columns of the bronze frame of an entity and its primary key
Columns(e) ==
    CASE e = "claims" -> ClaimsColumns
      [] e = "patients" -> PatientsColumns
      [] e = "providers" -> ProvidersColumns
      [] e = "prescriptions" -> PrescriptionsColumns

PrimaryKey(e) ==
    CASE e = "claims" -> "claim_id"
      [] e = "patients" -> "patient_id"
      [] e = "providers" -> "provider_id"
      [] e = "prescriptions" -> "prescription_id"

\* per key two rows cleaning keeps, told apart by a cell, and one it drops
KeyRows(e) ==
    CASE e = "claims" ->
            {ClaimRow(id, c, Num(2), Num(120), NaN) :
                id \in Ids, c \in {Num(500), Num(700), Num(-50)}}
      [] e = "patients" -> {PatientRow(id, a) : id \in Ids, a \in {Num(40), Num(41), Num(121)}}
      [] e = "providers" -> {ProviderRow(id, b) : id \in Ids, b \in {Num(250), Num(260), Num(0)}}
      [] e = "prescriptions" ->
            {PrescriptionRow(id, Num(30), Num(30), q, Num(40)) :
                id \in Ids, q \in {Num(60), Num(61), Num(0)}}

\* the last_visit_date that lies d whole days and h hours before StartNow
VisitedBefore(d, h) == Num(StartNow - (24 * d + h))

\* rows of one key whose cells lie around the edges
EdgeRows(e) ==
    CASE e = "claims" ->
            {ClaimRow(1, c, Num(2), Num(120), NaN) :
                c \in {Num(1), Num(1000), Num(1001), Num(5000), Num(5001), Num(15000),
                       Num(15001)}}
      [] e = "patients" ->
            {[PatientRow(1, Num(40)) EXCEPT !.chronic_conditions = c] :
                c \in {Num(-1), Num(0), Num(1), Num(2), Num(3), Num(4), Num(5), NaN, Str}}
            \cup {[PatientRow(1, Num(40)) EXCEPT !.last_visit_date = v] :
                     v \in {VisitedBefore(-3, 0), VisitedBefore(0, 0), VisitedBefore(90, 0),
                            VisitedBefore(90, 23), VisitedBefore(91, 0), VisitedBefore(365, 23),
                            VisitedBefore(366, 0), NaN, Str}}
            \cup {PatientRow(1, a) : a \in {Num(-1), Num(0), Num(120), NaN, Str}}
      [] e = "providers" ->
            {ProviderRow(1, b) :
                b \in {Num(-1), Num(1), Num(100), Num(101), Num(300), Num(301), Num(600),
                       Num(601), NaN, Str}}
      [] e = "prescriptions" ->
            {PrescriptionRow(1, sp[1], sp[2], Num(60), Num(40)) :
                sp \in {<<Num(1), Num(30)>>, <<Num(15), Num(30)>>, <<Num(16), Num(30)>>,
                        <<Num(24), Num(30)>>, <<Num(25), Num(30)>>, <<Num(90), Num(30)>>,
                        <<Num(0), Num(30)>>, <<Str, Num(30)>>, <<Num(30), Num(-1)>>,
                        <<Num(30), NaN>>}}
            \cup {PrescriptionRow(1, Num(30), Num(30), q, Num(40)) : q \in {Num(-1), NaN, Str}}
            \cup {PrescriptionRow(1, Num(30), Num(30), Num(60), c) :
                     c \in {Num(0), Num(-1), NaN, Str}}

InitClean ==
    \E e \in Entities :
        \E rows \in SeqUpTo(KeyRows(e) \cup EdgeRows(e), MaxRows) :
            Start(Only(e, Frame(Columns(e), rows)), NoArtifacts)

NextClean == \E e \in Entities : TransformCall(e)

\* a transform_<e>_data call over a bronze frame of the entity with all its
\* columns, with repeated keys and with cells around the edges
SpecClean == InitClean /\ [][NextClean]_vars

\* the entity whose transform has written its silver artifact
Written(e) == tcall = e /\ e \in tdone

\* the primary keys of the rows
KeysOf(e, rows) == {rows[i][PrimaryKey(e)] : i \in 1..Len(rows)}

\* the first row of the frame with the key
FirstWithKey(e, rows, k) ==
    rows[CHOOSE i \in 1..Len(rows) :
            /\ rows[i][PrimaryKey(e)] = k
            /\ \A j \in 1..(i - 1) : rows[j][PrimaryKey(e)] # k]

-----------------------------------------------------------------------------
(* C22 *)

\* C22: no two rows of a silver dataset have the same primary key, and the
\* row of a key is the one the transform makes of the first bronze row with
\* that key
C22_PrimaryKeyUnique ==
    \A e \in Entities :
        Written(e) =>
            LET rows == silver[e].rows
            IN  /\ \A i, j \in 1..Len(rows) :
                      i # j => rows[i][PrimaryKey(e)] # rows[j][PrimaryKey(e)]
                /\ \A i \in 1..Len(rows) :
                      LET first == FirstWithKey(e, bronze[e].rows, rows[i][PrimaryKey(e)])
                          alone == transform_data(e, Frame(bronze[e].cols, <<first>>)).df.rows
                      IN  alone = <<rows[i]>>

\* two bronze rows with the same key which cleaning keeps when alone: the
\* first is in silver, the second is not
C22_Witness ==
    \E e \in Entities :
        /\ Written(e)
        /\ Len(bronze[e].rows) = 2
        /\ bronze[e].rows[1][PrimaryKey(e)] = bronze[e].rows[2][PrimaryKey(e)]
        /\ bronze[e].rows[1] # bronze[e].rows[2]
        /\ Len(transform_data(e, Frame(bronze[e].cols, <<bronze[e].rows[2]>>)).df.rows) = 1
        /\ Len(silver[e].rows) = 1
        /\ silver[e].rows =
              transform_data(e, Frame(bronze[e].cols, <<bronze[e].rows[1]>>)).df.rows

-----------------------------------------------------------------------------
(* C23 *)

\* the transform of the entity meets no text in a column it does not coerce
Parses(e) == e = "patients" => RiskCuts(bronze[e].rows)

\* C23: every silver patient has 0 <= age <= 120, every silver provider
\* beds > 0, every silver prescription days_supplied, days_prescribed,
\* quantity and cost > 0, all of them numbers; and a transform over rows that
\* break these rules or hold a text in these columns returns
C23_DomainConstraints ==
    /\ Written("patients") =>
          \A i \in 1..Len(silver["patients"].rows) :
              LET r == silver["patients"].rows[i]
              IN  IsNum(r.age) /\ r.age.v >= 0 /\ r.age.v <= 120
    /\ Written("providers") =>
          \A i \in 1..Len(silver["providers"].rows) :
              LET r == silver["providers"].rows[i]
              IN  IsNum(r.beds) /\ r.beds.v > 0
    /\ Written("prescriptions") =>
          \A i \in 1..Len(silver["prescriptions"].rows) :
              LET r == silver["prescriptions"].rows[i]
              IN  /\ IsNum(r.days_supplied) /\ r.days_supplied.v > 0
                  /\ IsNum(r.days_prescribed) /\ r.days_prescribed.v > 0
                  /\ IsNum(r.quantity) /\ r.quantity.v > 0
                  /\ IsNum(r.cost) /\ r.cost.v > 0
    /\ \A e \in {"patients", "providers", "prescriptions"} :
          (tcall = e /\ bronze[e].exists /\ Parses(e)) => Written(e)

\* a provider whose beds are a text and a provider without beds were
\* dropped, and the transform returned
C23_Witness ==
    /\ Written("providers")
    /\ tpc = "returned"
    /\ bronze["providers"].rows = <<ProviderRow(1, Str), ProviderRow(2, Num(0))>>
    /\ silver["providers"].rows = <<>>

-----------------------------------------------------------------------------
(* C24 *)

\* the label of a number by the inclusive upper limits a, b, c
ByLimits(n, a, b, c, labels) ==
    IF n <= a THEN labels[1] ELSE IF n <= b THEN labels[2]
    ELSE IF n <= c THEN labels[3] ELSE labels[4]

\* C24: every silver claim has the cost_category of its cost, every silver
\* provider the hospital_size of its beds, every silver patient with
\* chronic_conditions >= 0 the risk_level of that count, and every silver
\* prescription the adherence_category of its rate, the upper limits inclusive
C24_BucketsTotal ==
    /\ Written("claims") =>
          \A i \in 1..Len(silver["claims"].rows) :
              LET r == silver["claims"].rows[i]
              IN  r.cost_category = ByLimits(r.cost.v, 1000, 5000, 15000, CostLabels)
    /\ Written("providers") =>
          \A i \in 1..Len(silver["providers"].rows) :
              LET r == silver["providers"].rows[i]
              IN  r.hospital_size = ByLimits(r.beds.v, 100, 300, 600, BedsLabels)
    /\ Written("patients") =>
          \A i \in 1..Len(silver["patients"].rows) :
              LET r == silver["patients"].rows[i]
              IN  Ge(r.chronic_conditions, 0) =>
                     r.risk_level = ByLimits(r.chronic_conditions.v, 0, 2, 4, RiskLabels)
    /\ Written("prescriptions") =>
          \A i \in 1..Len(silver["prescriptions"].rows) :
              LET r == silver["prescriptions"].rows[i]
                  a == r.adherence_rate
              IN  r.adherence_category =
                     IF 2 * a.num <= a.den THEN "Poor"
                     ELSE IF 5 * a.num <= 4 * a.den THEN "Fair" ELSE "Good"

\* a silver patient without chronic conditions has the risk level Low
C24_Witness ==
    /\ Written("patients")
    /\ \E i \in 1..Len(silver["patients"].rows) :
          /\ silver["patients"].rows[i].chronic_conditions = Num(0)
          /\ silver["patients"].rows[i].risk_level = "Low"

-----------------------------------------------------------------------------
(* C25 *)

\* C25: the patient_status of every silver patient is Active when the last
\* visit lies at most 90 whole days back or in the future, Inactive when it
\* lies more than 90 and at most 365 days back, Dormant when it lies further
\* back or is missing or does not parse
C25_PatientStatus ==
    Written("patients") =>
        \A i \in 1..Len(silver["patients"].rows) :
            LET r == silver["patients"].rows[i]
                v == r.last_visit_date
            IN  r.patient_status =
                   IF ~IsNum(v) THEN "Dormant"
                   ELSE IF now - v.v < 91 * 24 THEN "Active"
                   ELSE IF now - v.v < 366 * 24 THEN "Inactive"
                   ELSE "Dormant"

\* a patient whose last visit lies in the future is Active
C25_Witness ==
    /\ Written("patients")
    /\ bronze["patients"].rows =
          <<[PatientRow(1, Num(40)) EXCEPT !.last_visit_date = VisitedBefore(-3, 0)]>>
    /\ silver["patients"].rows[1].days_since_last_visit = Num(-3)
    /\ silver["patients"].rows[1].patient_status = "Active"

-----------------------------------------------------------------------------
(* C28 *)

\* C28: the primary keys of a silver dataset are among those of the bronze
\* dataset it was made from, and it has no more rows
C28_CleaningOnlyRemoves ==
    \A e \in Entities :
        Written(e) =>
            /\ KeysOf(e, silver[e].rows) \subseteq KeysOf(e, bronze[e].rows)
            /\ Len(silver[e].rows) <= Len(bronze[e].rows)

\* of two claims with different keys one was dropped and one is in silver
C28_Witness ==
    /\ Written("claims")
    /\ KeysOf("claims", bronze["claims"].rows) = {1, 2}
    /\ KeysOf("claims", silver["claims"].rows) = {2}

-----------------------------------------------------------------------------
(* C26 *)

\* the first k batches of the rows
Batches(rows, k) == SubSeq(rows, 1, Min(k * chunk_size, Len(rows)))

\* C26: wherever a fact-table load stops, the table holds what it held
\* before the load or exactly the first k batches of the silver artifact for
\* some k >= 1, never rows of both; and a load that stopped before the last
\* batch reports failure
C26_BatchPrefix ==
    \A e \in Facts :
        lcall = e =>
            LET new == SilverAsLoaded(e)
            IN  /\ \/ warehouse[e] = warehouse0[e]
                   \/ \E k \in 1..NumChunks(Len(new)) : warehouse[e] = Batches(new, k)
                /\ (\E k \in 1..(NumChunks(Len(new)) - 1) : warehouse[e] = Batches(new, k))
                      => lret = "False"

\* the second batch of a claims load over a filled table has failed: the
\* table holds the first batch and none of its earlier rows
C26_Witness ==
    /\ lcall = "claims"
    /\ lret = "False"
    /\ Len(silver["claims"].rows) = 2 * chunk_size
    /\ warehouse0["claims"] = StaleWarehouse["claims"]
    /\ warehouse["claims"] = Batches(SilverAsLoaded("claims"), 1)

\* ---------------------------------------------------------------------
\* update_provider_metrics over loaded tables
\* ---------------------------------------------------------------------

\* (cost, readmission_date) of the claims the tables are filled with; the
\* discharge date is hour 120, so hour 144 is a readmission within 30 days
ClaimStats == {<<Num(100), NaN>>, <<Num(200), Num(144)>>, <<NaN, NaN>>}

\* a claims row as load_claims_data writes it
LoadedClaim(id, provider, patient, stat) ==
    DbRow("claims", ReferenceMedications, TRUE,
          ClaimsFeatures(ClaimsColumns,
                         [ClaimRow(id, stat[1], Num(2), Num(120), stat[2])
                             EXCEPT !.provider_id = provider, !.patient_id = patient]))

\* claims tables of up to MaxRows rows, of the listed providers and of one
\* the providers table does not list
ClaimsTables ==
    UNION {[1..n -> {<<p, q, st>> : p \in 1..(MaxId + 1), q \in 1..2, st \in ClaimStats}]
              : n \in 0..MaxRows}

LoadedClaims(t) == [i \in 1..Len(t) |-> LoadedClaim(i, t[i][1], t[i][2], t[i][3])]

\* a providers row as load_providers_data writes it after a transform
FreshProvider(id) == ProvidersFeatures(ProviderRow(id, Num(250)))

\* a providers row holding the aggregates of an earlier update
UpdatedProvider(id) ==
    [FreshProvider(id) EXCEPT !.avg_cost = Frac(700, 1),
                              !.readmission_rate = Frac(1, 2),
                              !.patient_volume = 5]

ProvidersTables ==
    {[i \in 1..n |-> IF fresh THEN FreshProvider(i) ELSE UpdatedProvider(i)]
        : n \in 0..MaxId, fresh \in BOOLEAN}

\* a claims table written by the unprepared branch of the loader, without the
\* columns the UPDATE reads
UnpreparedClaims == <<[claim_id |-> 1, provider_id |-> 1]>>

InitMetrics ==
    \E c \in {LoadedClaims(t) : t \in ClaimsTables} \cup {UnpreparedClaims},
       p \in ProvidersTables :
        StartWith(NoSources, NoArtifacts, NoArtifacts,
                  [StaleWarehouse EXCEPT !["claims"] = c, !["providers"] = p],
                  ReferenceMedications)

NextMetrics ==
    \/ MetricsCall
    \/ LoaderLeft

\* update_provider_metrics called repeatedly on loaded tables
SpecMetrics == InitMetrics /\ [][NextMetrics]_vars

\* the positions of the claims of provider p
ClaimsAt(claims, p) == {j \in 1..Len(claims) : claims[j].provider_id = p}

RECURSIVE TotalCost(_, _)
TotalCost(claims, idx) ==
    IF idx = {} THEN 0
    ELSE LET j == CHOOSE j \in idx : TRUE
         IN  claims[j].cost.v + TotalCost(claims, idx \ {j})

\* C27: after update_provider_metrics returned True, every provider with a
\* claim has avg_cost equal to the mean of the costs of its claims (of those
\* that have a cost), readmission_rate equal to the fraction of its claims
\* with readmission_flag = 1 and patient_volume equal to the number of
\* distinct patient_ids of its claims; a provider without claims keeps the
\* three values it had; no other provider column and no other table changes
C27_ProviderMetrics ==
    (lcall = "metrics" /\ lpc = "returned" /\ lret = "True") =>
        /\ \A e \in Entities \ {"providers"} : warehouse[e] = warehouse0[e]
        /\ Len(warehouse["providers"]) = Len(warehouse0["providers"])
        /\ \A i \in 1..Len(warehouse["providers"]) :
              LET r == warehouse["providers"][i]
                  r0 == warehouse0["providers"][i]
                  claims == warehouse["claims"]
                  idx == ClaimsAt(claims, r0.provider_id)
                  costed == {j \in idx : IsNum(claims[j].cost)}
                  readmitted == {j \in idx : claims[j].readmission_flag = 1}
              IN  /\ DOMAIN r = DOMAIN r0
                  /\ \A c \in DOMAIN r0 \ {"avg_cost", "readmission_rate", "patient_volume"} :
                        r[c] = r0[c]
                  /\ IF idx = {}
                     THEN /\ r.avg_cost = r0.avg_cost
                          /\ r.readmission_rate = r0.readmission_rate
                          /\ r.patient_volume = r0.patient_volume
                     ELSE /\ r.patient_volume = Cardinality({claims[j].patient_id : j \in idx})
                          /\ r.readmission_rate.num * Cardinality(idx)
                                = r.readmission_rate.den * Cardinality(readmitted)
                          /\ IF costed = {} THEN r.avg_cost = NaN
                             ELSE r.avg_cost.num * Cardinality(costed)
                                     = r.avg_cost.den * TotalCost(claims, costed)

\* an update returned True over two claims of one patient at provider 1, one
\* of them a readmission, and provider 2 without claims kept earlier values
C27_Witness ==
    /\ lcall = "metrics" /\ lpc = "returned" /\ lret = "True"
    /\ Len(warehouse["claims"]) = 2
    /\ Len(warehouse["providers"]) = 2
    /\ ClaimsAt(warehouse["claims"], 1) = {1, 2}
    /\ warehouse["claims"][1].patient_id = warehouse["claims"][2].patient_id
    /\ warehouse["claims"][1].cost = Num(100)
    /\ warehouse["claims"][2].cost = Num(200)
    /\ warehouse["providers"][1].avg_cost = Frac(300, 2)
    /\ warehouse["providers"][1].readmission_rate = Frac(1, 2)
    /\ warehouse["providers"][1].patient_volume = 1
    /\ warehouse0["providers"][1].patient_volume = 5
    /\ warehouse["providers"][2] = UpdatedProvider(2)

\* C29: when the four loads of load_all_data succeeded, it returns True
\* whether update_provider_metrics succeeded or failed, and after a failed
\* update the providers table holds the rows load_providers_data wrote, with
\* the aggregates the silver artifact carries
C29_MetricsResultDropped ==
    (lcall = "all" /\ lpc = "returned" /\ AllLoadsOk) =>
        /\ lres["metrics"] \in {"ok", "fail"}
        /\ lret = "True"
        /\ lres["metrics"] = "fail" =>
              warehouse["providers"] = SilverAsLoaded("providers")

\* load_all_data returned True after a failed update, and the provider of a
\* loaded claim still has the aggregates of the transform
C29_Witness ==
    /\ lcall = "all" /\ lpc = "returned" /\ AllLoadsOk
    /\ lres["metrics"] = "fail"
    /\ lret = "True"
    /\ \E i \in 1..Len(warehouse["providers"]) :
          /\ ClaimsAt(warehouse["claims"], warehouse["providers"][i].provider_id) # {}
          /\ warehouse["providers"][i].avg_cost = Frac(0, 1)
          /\ warehouse["providers"][i].patient_volume = 0
    /\ update_provider_metrics(warehouse) # warehouse

\* ---------------------------------------------------------------------
\* bronze artifacts that lack columns, transformed and then loaded
\* ---------------------------------------------------------------------

\* how many columns a bronze artifact may lack
MaxMissing == 2

MissingColumns(e) == {m \in SUBSET Columns(e) : Cardinality(m) <= MaxMissing}

InitColumns ==
    \E e \in Entities :
        \E m \in MissingColumns(e), wh \in {EmptyWarehouse, StaleWarehouse} :
            StartWith(NoSources, Only(e, Frame(Columns(e) \ m, ValidBronze[e].rows)),
                      NoArtifacts, wh, ReferenceMedications)

NextColumns ==
    \/ \E e \in Entities : bronze[e].exists /\ TransformCall(e)
    \/ TransformerLeft
    \/ \E e \in Entities : silver[e].exists /\ LoadCall(e)
    \/ LoaderLeft

\* transform_<e>_data over a bronze artifact that lacks up to MaxMissing
\* columns, and load_<e>_data over the silver artifact it wrote, if any
SpecColumns == InitColumns /\ [][NextColumns]_vars

\* the branch of _prepare_<e>_for_db that logs a missing required column and
\* returns the dataset as it is
Unprepared(e, df) == ~(DbRequiredColumns(e) \subseteq df.cols)

\* C30: a silver artifact written by a transform has every column the
\* loader requires of the entity, so a load of an artifact the transformer
\* wrote does not take the branch for a missing required column
C30_RequiredColumnsWritten ==
    \A e \in Entities :
        /\ e \in tdone => DbRequiredColumns(e) \subseteq silver[e].cols
        /\ silver[e].exists => ~Unprepared(e, silver[e])
        /\ (lcall = e /\ lpc = "returned" /\ lret = "True") =>
              warehouse[e] = [i \in 1..Len(silver[e].rows) |->
                                 DbRow(e, medications, lres["lookup"] # "fail",
                                       silver[e].rows[i])]

\* a claims artifact was written from a bronze artifact that lacks a column
\* no step of the transform asks for, and its load returned True
C30_Witness ==
    /\ "claims" \in tdone
    /\ bronze["claims"].cols # ClaimsColumns
    /\ silver["claims"].exists
    /\ Len(silver["claims"].rows) >= 1
    /\ lcall = "claims" /\ lpc = "returned" /\ lret = "True"
    /\ Len(warehouse["claims"]) = Len(silver["claims"].rows)

====
